---- MODULE Spec2Model ----
(***************************************************************************)
(* A model of the SQLite-backed object cache of moio/vai (pkg/sqlcache).   *)
(*                                                                         *)
(* The state is the committed content of the database tables               *)
(*   objects(key, object)            the current object of every key       *)
(*   indices(name, value, key)       the secondary index rows              *)
(*   object_history(key, version, deleted, object)   (VersionedIndexer)    *)
(* together with the write lock a never-finished transaction keeps, the    *)
(* progress of a running Replace and the value the last call returned.     *)
(*                                                                         *)
(* Strings that are searched by substring (Brand) are sequences of         *)
(* characters; a comma separated string (Val) is the sequence of its       *)
(* comma separated tokens.                                                 *)
(***************************************************************************)
EXTENDS Integers, Sequences, FiniteSets, TLC

VARIABLES
    objects,         \* table objects: key -> blob, a function on the keys present
    fields,          \* table objects, field columns: key -> [field -> value]
    indices,         \* table indices: set of rows [name, value, key]
    object_history,  \* table object_history: set of rows [key, version, deleted, object]
    dbLocked,        \* a transaction that was begun and never ended holds the write lock
    repl,            \* the Replace call in progress (or the last one finished)
    lastOp,          \* the last call that returned: [op, key, err, existed, repeat]
    monotonic,       \* ghost: every version written so far was >= the key's earlier ones
    written,         \* ghost: the <<key, version>> pairs successfully written
    scenario,        \* ghost: how many steps of the test scenario have been replayed
    tx,              \* the transaction of the write being executed statement by statement
    closed,          \* Close was called on the database handle
    schema           \* the construction of the store: [pc, indexers, executed, err, panic]

vars == <<objects, fields, indices, object_history, dbLocked, repl, lastOp,
          monotonic, written, scenario, tx, closed, schema>>

(***************************************************************************)
(* Bounds and input domains                                                *)
(***************************************************************************)
MaxRev == 2

Keys == {"key1", "key2"}

ferrari == <<"f", "e", "r", "r", "a", "r", "i">>

ford == <<"f", "o", "r", "d">>

tesla == <<"t", "e", "s", "l", "a">>

\* the comma separated strings stored by the thread safe store tests
Vals == {<<>>, <<"foo">>, <<"foo", "bar">>, <<"foo", "foo">>}

Car(key, rev, brand, val) ==
    [Key |-> key, Revision |-> rev, Brand |-> brand, Val |-> val, Color |-> <<>>]

Painted(car, color) == [car EXCEPT !.Color = color]

\* objects written in the specification of the plain store: the index input varies
StoreObjs == {Car(k, 1, ferrari, v) : k \in Keys, v \in Vals}

\* objects written in the specification of the versioned indexer: every key at
\* every version, two different objects of one key at one version, and one
\* object whose index values repeat
VerObjs == {Car(k, r, ferrari, <<"foo">>) : k \in Keys, r \in 1..MaxRev}
           \cup {Car("key1", 1, ford, <<"foo">>), Car("key2", 1, ferrari, <<"foo", "foo">>)}

Nil == "nil"

(***************************************************************************)
(* Collaborator functions: the fixtures of the tests                       *)
(***************************************************************************)
keyfunc(obj) == obj.Key

versionfunc(obj) == obj.Revision

brandfunc(obj) == obj.Brand

colorfunc(obj) == obj.Color

\* the field extractors the list option indexer of the test is configured with
Fields == {"Brand", "Color"}

fieldFunc(field, obj) ==
    IF field = "Brand" THEN brandfunc(obj)
    ELSE IF field = "Color" THEN colorfunc(obj)
    ELSE <<>>

\* strings.Split(s, ","): the tokens of s; the empty string has the one token ""
Split(val) == IF val = <<>> THEN <<"">> ELSE val

Indexers == {"testIndexer", "testIndex"}

\* indexers[name](obj): "testIndexer" splits the value at commas,
\* "testIndex" files every object under the one value "testIndex"
IndexFunc(name, obj) ==
    IF name = "testIndexer" THEN Split(obj.Val) ELSE <<"testIndex">>

\* gob encoding of an object into the blob column, and back
Encode(obj) == [gob |-> obj]

Decode(blob) == blob.gob

(***************************************************************************)
(* Tables                                                                  *)
(***************************************************************************)
EmptyMap == [k \in {} |-> Nil]

EmptyDB == [objects |-> EmptyMap, fields |-> EmptyMap, indices |-> {}, object_history |-> {}]

DB ==
    [objects |-> objects, fields |-> fields, indices |-> indices,
     object_history |-> object_history]

HasObj(d, key) == key \in DOMAIN d.objects

Range(s) == {s[i] : i \in DOMAIN s}

HasDuplicate(s) == \E i, j \in DOMAIN s : i < j /\ s[i] = s[j]

(***************************************************************************)
(* The prepared statements, as functions of the tables d they run against  *)
(***************************************************************************)
\* upsertStmt with ON CONFLICT DO NOTHING: an existing row keeps its blob
upsertStmtKeepsOld(d, key, blob) ==
    [d EXCEPT !.objects =
        [k \in (DOMAIN d.objects) \cup {key} |->
            IF k \in DOMAIN d.objects THEN d.objects[k] ELSE blob]]

\* INSERT INTO objects(key, object) VALUES (?, ?)
\*   ON CONFLICT DO UPDATE SET object = excluded.object
upsertStmt(d, key, blob) ==
    [d EXCEPT !.objects =
        [k \in (DOMAIN d.objects) \cup {key} |-> IF k = key THEN blob ELSE d.objects[k]]]

\* DELETE FROM indices WHERE key = ?
deleteIndicesStmt(d, key) ==
    [d EXCEPT !.indices = {r \in d.indices : r.key # key}]

\* the rows the loop over the indexers inserts with
\* INSERT INTO indices(name, value, key) VALUES (?, ?, ?)
NewIndexRows(key, obj) ==
    UNION {{[name |-> n, value |-> v, key |-> key] : v \in Range(IndexFunc(n, obj))}
           : n \in Indexers}

insertIndicesStmt(d, key, obj) ==
    [d EXCEPT !.indices = d.indices \cup NewIndexRows(key, obj)]

\* PRIMARY KEY (name, value, key): inserting the same triple twice fails
IndexInsertFails(d, key, obj) ==
    \/ \E n \in Indexers : HasDuplicate(IndexFunc(n, obj))
    \/ NewIndexRows(key, obj) \cap d.indices # {}

\* deleteStmt removing every index row that shares a (name, value) with the key
deleteStmtSharedValues(d, key) ==
    [d EXCEPT !.objects = [k \in (DOMAIN d.objects) \ {key} |-> d.objects[k]],
              !.fields = [k \in (DOMAIN d.fields) \ {key} |-> d.fields[k]],
              !.indices = {r \in d.indices :
                              ~\E x \in d.indices :
                                  x.key = key /\ x.name = r.name /\ x.value = r.value}]

\* deleteStmt with the foreign key not enforced: the index rows stay
deleteStmtNoCascade(d, key) ==
    [d EXCEPT !.objects = [k \in (DOMAIN d.objects) \ {key} |-> d.objects[k]],
              !.fields = [k \in (DOMAIN d.fields) \ {key} |-> d.fields[k]]]

\* DELETE FROM objects WHERE key = ?
\*   (indices.key REFERENCES objects(key) ON DELETE CASCADE)
deleteStmt(d, key) ==
    [d EXCEPT !.objects = [k \in (DOMAIN d.objects) \ {key} |-> d.objects[k]],
              !.fields = [k \in (DOMAIN d.fields) \ {key} |-> d.fields[k]],
              !.indices = {r \in d.indices : r.key # key}]

\* deleteAllStmt deleting nothing
deleteAllStmtKeepsAll(d) == d

\* DELETE FROM objects   (the index rows cascade)
deleteAllStmt(d) ==
    [d EXCEPT !.objects = EmptyMap, !.fields = EmptyMap, !.indices = {}]

HistoryOf(d, key) == {h \in d.object_history : h.key = key}

\* SELECT MAX(version) FROM object_history WHERE key = ?   (0 stands for NULL)
MaxVersion(d, key) ==
    IF HistoryOf(d, key) = {} THEN 0
    ELSE CHOOSE v \in {h.version : h \in HistoryOf(d, key)} :
            \A h \in HistoryOf(d, key) : h.version <= v

\* addHistoryStmt with ON CONFLICT DO UPDATE SET object = excluded.object only
addHistoryStmtKeepsDeleted(d, key, version) ==
    IF ~HasObj(d, key) THEN d
    ELSE [d EXCEPT !.object_history =
            {h \in d.object_history : ~(h.key = key /\ h.version = version)}
            \cup {[key |-> key, version |-> version, object |-> d.objects[key],
                   deleted |-> IF \E h \in d.object_history :
                                      h.key = key /\ h.version = version /\ h.deleted = 1
                               THEN 1 ELSE 0]}]

\* addHistoryStmt with ON CONFLICT DO NOTHING
addHistoryStmtKeepsRow(d, key, version) ==
    IF ~HasObj(d, key) \/ \E h \in d.object_history : h.key = key /\ h.version = version
    THEN d
    ELSE [d EXCEPT !.object_history =
            d.object_history
            \cup {[key |-> key, version |-> version, deleted |-> 0, object |-> d.objects[key]]}]

\* addHistoryStmt appending a row after the greatest version when the row of
\* (key, version) exists already
addHistoryStmtAppends(d, key, version) ==
    IF ~HasObj(d, key) THEN d
    ELSE [d EXCEPT !.object_history = @ \cup
            {[key |-> key, deleted |-> 0, object |-> d.objects[key],
              version |-> IF \E h \in HistoryOf(d, key) : h.version = version
                          THEN MaxVersion(d, key) + 1 ELSE version]}]

\* INSERT INTO object_history(key, version, deleted, object)
\*   SELECT ?, ?, 0, object FROM objects WHERE key = ?
\*   ON CONFLICT DO UPDATE SET object = excluded.object, deleted = 0
addHistoryStmt(d, key, version) ==
    IF ~HasObj(d, key) THEN d
    ELSE [d EXCEPT !.object_history =
            {h \in d.object_history : ~(h.key = key /\ h.version = version)}
            \cup {[key |-> key, version |-> version, deleted |-> 0,
                   object |-> d.objects[key]]}]

\* deleteHistoryStmt as DELETE FROM object_history of the latest version
deleteHistoryStmtRemovesRow(d, key) ==
    [d EXCEPT !.object_history =
        {h \in d.object_history : ~(h.key = key /\ h.version = MaxVersion(d, key))}]

\* deleteHistoryStmt without "key = ?" in the outer WHERE: every row that
\* carries the greatest version of key is flagged
deleteHistoryStmtByVersion(d, key) ==
    [d EXCEPT !.object_history =
        {IF h.version = MaxVersion(d, key)
            THEN [h EXCEPT !.deleted = 1] ELSE h : h \in d.object_history}]

\* UPDATE object_history SET deleted = 1 WHERE key = ?
\*   AND version = (SELECT MAX(version) FROM object_history WHERE key = ?)
deleteHistoryStmt(d, key) ==
    [d EXCEPT !.object_history =
        {IF h.key = key /\ h.version = MaxVersion(d, key)
            THEN [h EXCEPT !.deleted = 1] ELSE h : h \in d.object_history}]

(***************************************************************************)
(* The hooks of the VersionedIndexer                                       *)
(***************************************************************************)
\* AfterUpsert appends the latest version to the history table
AfterUpsert(d, key, obj) == addHistoryStmt(d, key, versionfunc(obj))

\* AfterDelete updates the deleted flag on the history table
AfterDelete(d, key) == deleteHistoryStmt(d, key)

(***************************************************************************)
(* Writes.  A call returns [db, err, locked]: the committed tables, the    *)
(* error returned and whether a transaction is left holding the write lock *)
(***************************************************************************)
Faults == {"none", "indexFunc", "hook"}

Ret(d, err, locked) == [db |-> d, err |-> err, locked |-> locked]

\* what the handle answers to Begin, Exec and Query once it is closed
ErrClosed == "sql: database is closed"

\* a handle on which Close has no effect
OnHandleLeftOpen(isClosed, d, locked, r) == r

\* a call on the handle: after Close its first statement fails and nothing is
\* executed; before, the call returns r
OnHandle(isClosed, d, locked, r) ==
    IF isClosed THEN Ret(d, ErrClosed, locked) ELSE r

\* UpsertTx without DELETE FROM indices WHERE key = ?
UpsertTxKeepsIndices(d, key, obj) ==
    insertIndicesStmt(upsertStmt(d, key, Encode(obj)), key, obj)

\* the statements of SafeAdd between Begin and Commit
UpsertTx(d, key, obj) ==
    insertIndicesStmt(deleteIndicesStmt(upsertStmt(d, key, Encode(obj)), key), key, obj)

\* SafeAdd with every statement committed as it is executed
SafeAddNoTx(d, key, obj, fault, locked) ==
    IF locked THEN Ret(d, "database is locked", TRUE)
    ELSE IF fault = "indexFunc"
         THEN Ret(deleteIndicesStmt(upsertStmt(d, key, Encode(obj)), key), "indexFunc", TRUE)
    ELSE IF IndexInsertFails(deleteIndicesStmt(upsertStmt(d, key, Encode(obj)), key), key, obj)
         THEN Ret(deleteIndicesStmt(upsertStmt(d, key, Encode(obj)), key), "constraint", TRUE)
    ELSE Ret(UpsertTx(d, key, obj), Nil, FALSE)

\* SafeAdd: every error path returns without Rollback, so what the transaction
\* wrote is never committed and the transaction keeps the write lock
SafeAdd(d, key, obj, fault, locked) ==
    IF locked THEN Ret(d, "database is locked", TRUE)
    ELSE IF fault = "indexFunc" THEN Ret(d, "indexFunc", TRUE)
    ELSE IF IndexInsertFails(deleteIndicesStmt(upsertStmt(d, key, Encode(obj)), key), key, obj)
         THEN Ret(d, "constraint", TRUE)
    ELSE Ret(UpsertTx(d, key, obj), Nil, FALSE)

\* an update that writes only a key that already has an object
SafeUpdateExistingOnly(d, key, obj, fault, locked) ==
    IF HasObj(d, key) \/ locked THEN SafeAdd(d, key, obj, fault, locked)
    ELSE Ret(d, Nil, FALSE)

\* SafeUpdate delegates to SafeAdd
SafeUpdate(d, key, obj, fault, locked) == SafeAdd(d, key, obj, fault, locked)

\* SafeDelete: the statement is executed on its own
SafeDelete(d, key, locked) ==
    IF locked THEN Ret(d, "database is locked", TRUE)
    ELSE Ret(deleteStmt(d, key), Nil, FALSE)

\* the field columns written only when the row has none yet
setFieldsOnInsert(d, key, obj) ==
    IF key \in DOMAIN d.fields THEN d
    ELSE [d EXCEPT !.fields =
            [k \in (DOMAIN d.fields) \cup {key} |->
                IF k = key THEN [f \in Fields |-> fieldFunc(f, obj)] ELSE d.fields[k]]]

\* the list option indexer writes the extracted values into the field columns
\* of the object row
setFieldsStmt(d, key, obj) ==
    [d EXCEPT !.fields =
        [k \in (DOMAIN d.fields) \cup {key} |->
            IF k = key THEN [f \in Fields |-> fieldFunc(f, obj)] ELSE d.fields[k]]]

\* Upsert with the hooks run after the write was committed
UpsertHooksAfterCommit(d, key, obj, fault, locked) ==
    LET r == SafeAdd(d, key, obj, fault, locked)
    IN IF r.err # Nil THEN r
       ELSE IF fault = "hook" THEN Ret(r.db, "versionFunc", FALSE)
       ELSE Ret(setFieldsStmt(AfterUpsert(r.db, key, obj), key, obj), Nil, FALSE)

\* Upsert of the Indexer with hooks: the statements of SafeAdd, then the
\* after-upsert hooks (history row, field columns) in the same transaction,
\* then Commit
Upsert(d, key, obj, fault, locked) ==
    LET r == SafeAdd(d, key, obj, fault, locked)
    IN IF r.err # Nil THEN r
       ELSE IF fault = "hook" THEN Ret(d, "versionFunc", TRUE)
       ELSE Ret(setFieldsStmt(AfterUpsert(r.db, key, obj), key, obj), Nil, FALSE)

\* DeleteByKey of the Indexer with hooks: the delete, then the after-delete
\* hooks in the same transaction, then Commit
DeleteByKey(d, key, fault, locked) ==
    LET r == SafeDelete(d, key, locked)
    IN IF r.err # Nil THEN r
       ELSE IF fault = "hook" THEN Ret(d, "hook", TRUE)
       ELSE Ret(AfterDelete(r.db, key), Nil, FALSE)

\* sqlIndexer.Replace: the list becomes a map by key, a later entry winning
RECURSIVE ObjectMap(_)
ObjectMap(list) ==
    IF list = <<>> THEN EmptyMap
    ELSE LET m == ObjectMap(SubSeq(list, 1, Len(list) - 1))
             o == list[Len(list)]
         IN [k \in (DOMAIN m) \cup {keyfunc(o)} |-> IF k = keyfunc(o) THEN o ELSE m[k]]

(***************************************************************************)
(* The objects of TestListOptionIndexer and its sequence of calls          *)
(***************************************************************************)
red == Painted(Car("testa rossa", 1, ferrari, <<>>), <<"r", "e", "d">>)

blue == Painted(Car("focus", 2, ford, <<>>), <<"b", "l", "u", "e">>)

red3 == Painted(Car("testa rossa", 3, ferrari, <<>>), <<"r", "e", "d">>)

black == Painted(Car("model 3", 4, tesla, <<>>), <<"b", "l", "a", "c", "k">>)

CarObjs == {red, blue, red3, black}

\* cars that agree on a sorted field: a blue ferrari under the key of blue
\* and a red ferrari under the key of black
blue5 == Painted(Car("focus", 5, ferrari, <<>>), <<"b", "l", "u", "e">>)

red6 == Painted(Car("model 3", 6, ferrari, <<>>), <<"r", "e", "d">>)

SortObjs == {red3, blue, black, blue5, red6}

AllKeys == Keys \cup {keyfunc(o) : o \in CarObjs}

\* Add(red), Add(blue), Delete(red), Update(red at revision 3), Add(black)
ScenarioSteps ==
    << [op |-> "Add", obj |-> red], [op |-> "Add", obj |-> blue],
       [op |-> "Delete", obj |-> red], [op |-> "Update", obj |-> red3],
       [op |-> "Add", obj |-> black] >>

\* the scenario advances when the next call of the test is made and succeeds
ScenarioAfter(op, obj, err) ==
    IF /\ scenario >= 0 /\ scenario < Len(ScenarioSteps) /\ err = Nil
       /\ ScenarioSteps[scenario + 1].op = op
       /\ IF op = "Delete" THEN keyfunc(ScenarioSteps[scenario + 1].obj) = keyfunc(obj)
                           ELSE ScenarioSteps[scenario + 1].obj = obj
    THEN scenario + 1 ELSE -1

(***************************************************************************)
(* State machine                                                           *)
(***************************************************************************)
\* what a reader running beside the writer finds in the store
Contents(d) == [objects |-> d.objects, indices |-> d.indices]

Idle == [pc |-> "idle", pending |-> EmptyMap, before |-> Contents(EmptyDB), target |-> EmptyMap]

\* what the last call returned; existed: the key had an object before the call,
\* repeat: the write repeated a <<key, version>> the history already held
Returned(op, key, err, existed, repeat) ==
    [op |-> op, key |-> key, err |-> err, existed |-> existed, repeat |-> repeat]

\* no transaction was begun yet; before and db are the tables at Begin and
\* the tables as the transaction sees them
NoTx ==
    [pc |-> "idle", op |-> "", key |-> "", obj |-> Car("", 0, <<>>, <<>>), fault |-> "none",
     before |-> EmptyDB, db |-> EmptyDB]

\* the schema definition statements of initSchema
SchemaStmts ==
    <<"DROP TABLE IF EXISTS indices", "DROP TABLE IF EXISTS objects", "CREATE TABLE objects",
      "CREATE TABLE indices", "CREATE INDEX indices_name_value_index">>

\* NewThreadSafeStore returned the store
Constructed ==
    [pc |-> "returned", indexers |-> Indexers, executed |-> SchemaStmts, err |-> Nil, panic |-> Nil]

Init ==
    /\ tx = NoTx
    /\ closed = FALSE
    /\ schema = Constructed
    /\ objects = EmptyMap
    /\ fields = EmptyMap
    /\ indices = {}
    /\ object_history = {}
    /\ dbLocked = FALSE
    /\ repl = Idle
    /\ lastOp = Returned("New", "", Nil, FALSE, FALSE)
    /\ monotonic = TRUE
    /\ written = {}
    /\ scenario = 0

Commit(r) ==
    /\ objects' = r.db.objects
    /\ indices' = r.db.indices
    /\ object_history' = r.db.object_history
    /\ fields' = r.db.fields
    /\ dbLocked' = r.locked

\* the ghosts of a write of obj under key that returned r
Ghosts(r, key, obj, hooks) ==
    /\ monotonic' = IF r.err = Nil /\ hooks
                        THEN monotonic /\ versionfunc(obj) >= MaxVersion(DB, key)
                        ELSE monotonic
    /\ written' = IF r.err = Nil /\ hooks
                        THEN written \cup {<<key, versionfunc(obj)>>}
                        ELSE written

RowExists(d, key, version) ==
    \E h \in d.object_history : h.key = key /\ h.version = version

\* sqlIndexer.Add and sqlIndexer.Update: the key is keyfunc(obj), the write is
\* SafeAdd, or Upsert when hooks are registered
Write(op, obj, fault, hooks) ==
    LET key == keyfunc(obj)
        r == OnHandle(closed, DB, dbLocked,
                      IF hooks THEN Upsert(DB, key, obj, fault, dbLocked)
                      ELSE IF op = "Update" THEN SafeUpdate(DB, key, obj, fault, dbLocked)
                      ELSE SafeAdd(DB, key, obj, fault, dbLocked))
    IN /\ repl.pc # "running"
       /\ Commit(r)
       /\ Ghosts(r, key, obj, hooks)
       /\ UNCHANGED <<tx, closed, schema>>
       /\ repl' = Idle
       /\ lastOp' = Returned("Upsert", key, r.err, HasObj(DB, key),
                              r.err = Nil /\ RowExists(DB, key, versionfunc(obj)))
       /\ scenario' = ScenarioAfter(op, obj, r.err)

Add(obj, fault, hooks) == Write("Add", obj, fault, hooks)

Update(obj, fault, hooks) == Write("Update", obj, fault, hooks)

\* sqlIndexer.Delete
Delete(obj, fault, hooks) ==
    LET key == keyfunc(obj)
        r == OnHandle(closed, DB, dbLocked,
                      IF hooks THEN DeleteByKey(DB, key, fault, dbLocked)
                      ELSE SafeDelete(DB, key, dbLocked))
    IN /\ repl.pc # "running"
       /\ Commit(r)
       /\ UNCHANGED <<monotonic, written, tx, closed, schema>>
       /\ repl' = Idle
       /\ lastOp' = Returned("Delete", key, r.err, HasObj(DB, key), FALSE)
       /\ scenario' = ScenarioAfter("Delete", obj, r.err)

\* SafeReplace, first part: DELETE FROM objects is executed on its own (it is
\* committed at once), then the entries are added one SafeAdd at a time
ReplaceBegin(list) ==
    LET m == ObjectMap(list)
        snap == [pc |-> "running", pending |-> m, before |-> Contents(DB), target |-> m]
        empty == m = EmptyMap
    IN /\ repl.pc # "running"
       /\ UNCHANGED <<monotonic, written, tx, closed, schema>>
       /\ scenario' = -1
       /\ IF closed \/ dbLocked
          THEN /\ UNCHANGED <<objects, fields, indices, object_history, dbLocked>>
               /\ repl' = Idle
               /\ lastOp' = Returned("Replace", "",
                                      IF closed THEN ErrClosed ELSE "database is locked",
                                      FALSE, FALSE)
          ELSE /\ Commit(Ret(deleteAllStmt(DB), Nil, FALSE))
               /\ repl' = IF empty THEN Idle ELSE snap
               /\ lastOp' = IF empty THEN Returned("Replace", "", Nil, FALSE, FALSE) ELSE lastOp

\* SafeReplace, the loop over the map (in any order): one SafeAdd per step;
\* the first error is returned, after the last entry nil is returned
ReplaceStep(key, fault, hooks) ==
    /\ repl.pc = "running"
    /\ key \in DOMAIN repl.pending
    /\ LET obj == repl.pending[key]
           r == OnHandle(closed, DB, dbLocked,
                         IF hooks THEN Upsert(DB, key, obj, fault, dbLocked)
                         ELSE SafeAdd(DB, key, obj, fault, dbLocked))
           rest == [k \in (DOMAIN repl.pending) \ {key} |-> repl.pending[k]]
           done == r.err # Nil \/ rest = EmptyMap
       IN /\ Commit(r)
          /\ Ghosts(r, key, obj, hooks)
          /\ repl' = IF done THEN Idle ELSE [repl EXCEPT !.pending = rest]
          /\ lastOp' = IF done THEN Returned("Replace", "", r.err, FALSE, FALSE) ELSE lastOp
          /\ UNCHANGED <<scenario, tx, closed, schema>>

Lists(objs) ==
    {<<>>} \cup {<<o>> : o \in objs}
           \cup {<<o1, o2>> : o1 \in objs, o2 \in objs}

Writes(objs, hooks) ==
    \/ \E obj \in objs, fault \in Faults : Add(obj, fault, hooks)
    \/ \E obj \in objs, fault \in Faults : Update(obj, fault, hooks)
    \/ \E obj \in objs, fault \in Faults : Delete(obj, fault, hooks)

NextOver(objs, hooks) ==
    \/ Writes(objs, hooks)
    \/ \E list \in Lists(objs) : ReplaceBegin(list)
    \/ \E key \in AllKeys, fault \in Faults : ReplaceStep(key, fault, hooks)

\* the Indexer over the thread safe store, no hooks registered
Next == NextOver(StoreObjs, FALSE)

Spec == Init /\ [][Next]_vars

\* the VersionedIndexer: AfterUpsert and AfterDelete are registered; single writes
NextV == Writes(VerObjs, TRUE)

SpecV == Init /\ [][NextV]_vars

\* the VersionedIndexer fed with the cars of TestListOptionIndexer
NextCars == NextOver(CarObjs, TRUE)

SpecCars == Init /\ [][NextCars]_vars

\* the list option indexer of the test under its single writes only
NextList == Writes(CarObjs, TRUE)

SpecList == Init /\ [][NextList]_vars

\* the list option indexer under single writes of cars with equal field values
NextSort == Writes(SortObjs, TRUE)

SpecSort == Init /\ [][NextSort]_vars

(***************************************************************************)
(* A write executed statement by statement, beside readers that use other  *)
(* connections of the pool                                                 *)
(***************************************************************************)
\* objects of the plain store and a second object of key1 with other index
\* rows, another brand and a later version
TxObjs == StoreObjs \cup {Car("key1", 2, ford, <<"bar">>)}

\* the tables the readers find when the transaction has written working
\* without committing it
PublishedUncommitted(d, working) == working

\* every statement is executed with tx.Stmt(stmt).Exec: what it writes
\* belongs to the transaction until Commit, the readers find the tables d
Published(d, working) == d

\* the statement the transaction executes next, applied to its tables
Working(t) ==
    CASE t.pc = "upsertStmt" -> upsertStmt(t.db, t.key, Encode(t.obj))
      [] t.pc = "deleteIndicesStmt" -> deleteIndicesStmt(t.db, t.key)
      [] t.pc = "insertIndicesStmt" -> insertIndicesStmt(t.db, t.key, t.obj)
      [] t.pc = "deleteStmt" -> deleteStmt(t.db, t.key)
      [] t.pc = "hooks" -> IF t.op = "Upsert"
                           THEN setFieldsStmt(AfterUpsert(t.db, t.key, t.obj), t.key, t.obj)
                           ELSE AfterDelete(t.db, t.key)

NextPc(t) ==
    CASE t.pc = "upsertStmt" -> "deleteIndicesStmt"
      [] t.pc = "deleteIndicesStmt" -> "insertIndicesStmt"
      [] t.pc = "insertIndicesStmt" -> "hooks"
      [] t.pc = "deleteStmt" -> "hooks"
      [] t.pc = "hooks" -> "Commit"

\* the statement returns an error: the index function or the insert of an
\* index row fails, or a hook fails
StatementFails(t) ==
    \/ /\ t.pc = "insertIndicesStmt"
       /\ t.fault = "indexFunc" \/ IndexInsertFails(t.db, t.key, t.obj)
    \/ t.pc = "hooks" /\ t.fault = "hook"

\* s.db.Begin() of an Upsert or a DeleteByKey
TxBegin(op, obj, fault) ==
    /\ tx.pc = "idle"
    /\ tx' = [pc |-> IF dbLocked THEN "idle" ELSE IF op = "Upsert" THEN "upsertStmt" ELSE "deleteStmt",
              op |-> op, key |-> keyfunc(obj), obj |-> obj, fault |-> fault,
              before |-> DB, db |-> DB]
    /\ lastOp' = IF dbLocked
                 THEN Returned(op, keyfunc(obj), "database is locked", HasObj(DB, keyfunc(obj)), FALSE)
                 ELSE lastOp
    /\ UNCHANGED <<objects, fields, indices, object_history, dbLocked, repl,
                   monotonic, written, scenario, closed, schema>>

\* one statement of the transaction
TxStatement ==
    /\ tx.pc \notin {"idle", "Commit"}
    /\ ~StatementFails(tx)
    /\ tx' = [tx EXCEPT !.db = Working(tx), !.pc = NextPc(tx)]
    /\ Commit(Ret(Published(DB, Working(tx)), Nil, dbLocked))
    /\ UNCHANGED <<repl, lastOp, monotonic, written, scenario, closed, schema>>

\* a statement fails and the call returns its error, without Rollback
TxAbandon ==
    /\ tx.pc \notin {"idle", "Commit"}
    /\ StatementFails(tx)
    /\ tx' = [tx EXCEPT !.pc = "idle"]
    /\ dbLocked' = TRUE
    /\ lastOp' = Returned(tx.op, tx.key, tx.fault, HasObj(tx.before, tx.key), FALSE)
    /\ UNCHANGED <<objects, fields, indices, object_history, repl, monotonic, written, scenario, closed, schema>>

\* tx.Commit()
TxCommit ==
    /\ tx.pc = "Commit"
    /\ tx' = [tx EXCEPT !.pc = "idle"]
    /\ Commit(Ret(tx.db, Nil, FALSE))
    /\ lastOp' = Returned(tx.op, tx.key, Nil, HasObj(tx.before, tx.key), FALSE)
    /\ UNCHANGED <<repl, monotonic, written, scenario, closed, schema>>

\* the VersionedIndexer over two keys that are written at the same versions,
\* one of them with two different objects at one version
SharedObjs ==
    {Car(k, r, ferrari, <<"foo">>) : k \in Keys, r \in {1, 2}}
        \cup {Car("key1", 1, ford, <<"bar">>)}

NextShared == Writes(SharedObjs, TRUE)

SpecShared == Init /\ [][NextShared]_vars

\* Close of the store, or of an indexer over it: s.db.Close()
Close ==
    /\ closed' = TRUE
    /\ lastOp' = Returned("Close", "", Nil, FALSE, FALSE)
    /\ UNCHANGED <<objects, fields, indices, object_history, dbLocked, repl,
                   monotonic, written, scenario, tx, schema>>

\* the Indexer with hooks over the store, whose handle is closed at any moment
NextClose ==
    \/ NextOver(StoreObjs, TRUE)
    \/ Close

SpecClose == Init /\ [][NextClose]_vars

NextTx ==
    \/ \E op \in {"Upsert", "Delete"}, obj \in TxObjs, fault \in Faults : TxBegin(op, obj, fault)
    \/ TxStatement
    \/ TxAbandon
    \/ TxCommit

SpecTx == Init /\ [][NextTx]_vars

(***************************************************************************)
(* Index tables                                                            *)
(***************************************************************************)
IndexedValues(d, name, key) == {r.value : r \in {x \in d.indices : x.name = name /\ x.key = key}}

\* C1: index consistency.  For every registered indexer name n and every key k
\* with a current object o, the values of the index rows (n, v, k) are exactly
\* the values indexers[n](o) returns: no stale value, none missing.
IndexConsistency ==
    \A k \in DOMAIN objects : \A n \in Indexers :
        IndexedValues(DB, n, k) = Range(IndexFunc(n, Decode(objects[k])))

\* an object with two index values was overwritten by one with a single value
\* while the other key keeps its two values
IndexConsistencyWitness ==
    /\ lastOp.op = "Upsert" /\ lastOp.err = Nil /\ lastOp.existed
    /\ lastOp.key = "key1" /\ "key1" \in DOMAIN objects
    /\ Decode(objects["key1"]).Val = <<"foo">>
    /\ "key2" \in DOMAIN objects /\ Decode(objects["key2"]).Val = <<"foo", "bar">>
    /\ [name |-> "testIndexer", value |-> "bar", key |-> "key2"] \in indices

\* C2: referential integrity.  Every index row refers to a key that has an
\* object record; no index row survives the removal of its object.
ReferentialIntegrity ==
    \A r \in indices : r.key \in DOMAIN objects

\* a key that had an object (and so index rows) was deleted, another key remains
ReferentialIntegrityWitness ==
    /\ lastOp.op = "Delete" /\ lastOp.err = Nil /\ lastOp.existed
    /\ lastOp.key \notin DOMAIN objects
    /\ \E r \in indices : r.key # lastOp.key

(***************************************************************************)
(* ListByOptions: the query the list options are planned into              *)
(***************************************************************************)
Digits == <<"0", "1", "2", "3", "4", "5", "6", "7", "8", "9">>
DigitValue(c) == (CHOOSE i \in 1..10 : Digits[i] = c) - 1

\* strconv.Atoi of a string of decimal digits
RECURSIVE Atoi(_)
Atoi(str) ==
    IF str = <<>> THEN 0
    ELSE 10 * Atoi(SubSeq(str, 1, Len(str) - 1)) + DigitValue(str[Len(str)])

\* strconv.Itoa
RECURSIVE Itoa(_)
Itoa(n) == IF n < 10 THEN <<Digits[n + 1]>> ELSE Itoa(n \div 10) \o <<Digits[(n % 10) + 1]>>

\* match is a substring of str
Contains(str, match) ==
    \E i \in 0..(Len(str) - Len(match)) : SubSeq(str, i + 1, i + Len(match)) = match

\* the characters of the strings, in byte order
Alphabet ==
    <<"%",
      "A", "B", "C", "D", "E", "F", "G", "H", "I", "J", "K", "L", "M",
      "N", "O", "P", "Q", "R", "S", "T", "U", "V", "W", "X", "Y", "Z",
      "_",
      "a", "b", "c", "d", "e", "f", "g", "h", "i", "j", "k", "l", "m",
      "n", "o", "p", "q", "r", "s", "t", "u", "v", "w", "x", "y", "z">>

CharRank == [c \in Range(Alphabet) |-> CHOOSE i \in DOMAIN Alphabet : Alphabet[i] = c]

\* LIKE compares the ASCII letters without regard to their case
Fold ==
    [c \in Range(Alphabet) |->
        IF CharRank[c] \in CharRank["A"]..CharRank["Z"]
        THEN Alphabet[CharRank[c] - CharRank["A"] + CharRank["a"]]
        ELSE c]

\* str LIKE pattern: % stands for any characters, _ for any one character
RECURSIVE LikePattern(_, _)
LikePattern(str, pattern) ==
    IF pattern = <<>> THEN str = <<>>
    ELSE IF Head(pattern) = "%"
         THEN \E k \in 0..Len(str) : LikePattern(SubSeq(str, k + 1, Len(str)), Tail(pattern))
    ELSE /\ str # <<>>
         /\ Head(pattern) = "_" \/ Fold[Head(str)] = Fold[Head(pattern)]
         /\ LikePattern(Tail(str), Tail(pattern))

\* column LIKE '%' || ? || '%'
Like(column, match) == LikePattern(column, <<"%">> \o match \o <<"%">>)

\* SELECT MAX(version) FROM object_history h2 WHERE h2.key = :key AND h2.version <= :R
MaxVersionUpTo(d, key, R) ==
    LET vs == {h.version : h \in {x \in HistoryOf(d, key) : x.version <= R}}
    IN IF vs = {} THEN -1 ELSE CHOOSE v \in vs : \A w \in vs : w <= v

\* the historical selection with the inner MAX taken over the rows not deleted
HistoricalSelectLive(d, R) ==
    {h1 \in d.object_history :
        /\ h1.version <= R /\ h1.deleted = 0
        /\ \A h2 \in HistoryOf(d, h1.key) :
               (h2.version <= R /\ h2.deleted = 0) => h2.version <= h1.version}

\* SELECT object FROM object_history h1 WHERE version <= :R AND deleted = 0
\*   AND version = (SELECT MAX(version) ... h2.key = h1.key AND h2.version <= :R)
HistoricalSelect(d, R) ==
    {h1 \in d.object_history :
        h1.version <= R /\ h1.deleted = 0 /\ h1.version = MaxVersionUpTo(d, h1.key, R)}

\* a column that was never written
Null == <<Nil>>

NullCols == [f \in Fields |-> Null]

\* the historical selection read with the blob and the field columns of the
\* key's current object
SourceRowsLatestBlob(d, revision) ==
    IF revision = <<>>
    THEN {[key |-> k, object |-> d.objects[k],
           cols |-> IF k \in DOMAIN d.fields THEN d.fields[k] ELSE NullCols] :
             k \in DOMAIN d.objects}
    ELSE {[key |-> h.key,
           object |-> IF h.key \in DOMAIN d.objects THEN d.objects[h.key] ELSE h.object,
           cols |-> IF h.key \in DOMAIN d.fields THEN d.fields[h.key] ELSE NullCols] :
             h \in HistoricalSelect(d, Atoi(revision))}

\* the rows the query reads, each with its key, its blob and its field
\* columns: the latest objects when no revision is given, the historical
\* selection (with the field values of the row's own object) otherwise
SourceRows(d, revision) ==
    IF revision = <<>>
    THEN {[key |-> k, object |-> d.objects[k],
           cols |-> IF k \in DOMAIN d.fields THEN d.fields[k] ELSE NullCols] :
             k \in DOMAIN d.objects}
    ELSE {[key |-> h.key, object |-> h.object,
           cols |-> [f \in Fields |-> fieldFunc(f, Decode(h.object))]] :
             h \in HistoricalSelect(d, Atoi(revision))}

Filter(field, match) == [field |-> field, match |-> match]

Sort(primaryField, primaryOrder, secondaryField, secondaryOrder) ==
    [primaryField |-> primaryField, primaryOrder |-> primaryOrder,
     secondaryField |-> secondaryField, secondaryOrder |-> secondaryOrder]

Pagination(pageSize, page) == [pageSize |-> pageSize, page |-> page]

\* Sort{} and Pagination{}: no field, no order, no page size, no page
NoSort == Sort("", "", "", "")

NoPagination == Pagination(0, 0)

ListOptions(filters, revision) ==
    [Filters |-> filters, Sort |-> NoSort, Pagination |-> NoPagination, Revision |-> revision]

SortedBy(lo, sort) == [lo EXCEPT !.Sort = sort]

PagedBy(lo, pagination) == [lo EXCEPT !.Pagination = pagination]

\* every filter is one more AND column LIKE '%' || ? || '%'
Matches(row, filters) ==
    \A i \in DOMAIN filters :
        /\ row.cols[filters[i].field] # Null
        /\ Like(row.cols[filters[i].field], filters[i].match)

\* the order of text columns: byte by byte, a prefix first, NULL before all
StrLess(a, b) ==
    IF a = Null THEN b # Null
    ELSE IF b = Null THEN FALSE
    ELSE \E i \in 1..(Len(b)) :
            /\ \A j \in 1..(i - 1) : j <= Len(a) /\ a[j] = b[j]
            /\ i > Len(a) \/ CharRank[a[i]] < CharRank[b[i]]

\* ORDER BY column ASC | DESC
InOrder(a, b, order) == IF order = "DESC" THEN StrLess(b, a) ELSE StrLess(a, b)

Position(scan, key) == CHOOSE i \in DOMAIN scan : scan[i] = key

\* the secondary column used also when no primary one is given
PrecedesSecondaryAlone(x, y, sort, scan) ==
    LET p == sort.primaryField
        q == sort.secondaryField
    IN IF p # "" /\ x.cols[p] # y.cols[p] THEN InOrder(x.cols[p], y.cols[p], sort.primaryOrder)
       ELSE IF q # "" /\ x.cols[q] # y.cols[q]
            THEN InOrder(x.cols[q], y.cols[q], sort.secondaryOrder)
       ELSE Position(scan, x.key) < Position(scan, y.key)

\* row x comes before row y: by the primary column, then by the secondary
\* column (only when a primary one is given), then in the order the rows are
\* scanned
Precedes(x, y, sort, scan) ==
    LET p == sort.primaryField
        q == sort.secondaryField
    IN IF p # "" /\ x.cols[p] # y.cols[p] THEN InOrder(x.cols[p], y.cols[p], sort.primaryOrder)
       ELSE IF p # "" /\ q # "" /\ x.cols[q] # y.cols[q]
            THEN InOrder(x.cols[q], y.cols[q], sort.secondaryOrder)
       ELSE Position(scan, x.key) < Position(scan, y.key)

OrderBy(rows, sort, scan) ==
    [i \in 1..Cardinality(rows) |->
        CHOOSE x \in rows : Cardinality({y \in rows : Precedes(y, x, sort, scan)}) = i - 1]

Max(a, b) == IF a >= b THEN a ELSE b

Min(a, b) == IF a <= b THEN a ELSE b

\* the LIMIT emitted also when no page size is given
LimitOffsetAlways(rows, pagination) ==
    LET offset == pagination.pageSize * (Max(pagination.page, 1) - 1)
    IN SubSeq(rows, offset + 1, Min(offset + pagination.pageSize, Len(rows)))

\* the page number taken for the offset
LimitOffsetByPage(rows, pagination) ==
    IF pagination.pageSize > 0
    THEN LET offset == Max(pagination.page, 1) - 1
         IN SubSeq(rows, offset + 1, Min(offset + pagination.pageSize, Len(rows)))
    ELSE rows

\* LIMIT pageSize OFFSET pageSize * (max(page, 1) - 1) when pageSize > 0
LimitOffset(rows, pagination) ==
    IF pagination.pageSize > 0
    THEN LET offset == pagination.pageSize * (Max(pagination.page, 1) - 1)
         IN SubSeq(rows, offset + 1, Min(offset + pagination.pageSize, Len(rows)))
    ELSE rows

\* the field paths the options name
FieldsNamed(lo) ==
    ({lo.Filters[i].field : i \in DOMAIN lo.Filters}
        \cup {lo.Sort.primaryField, lo.Sort.secondaryField}) \ {""}

\* the clauses of unregistered field paths left out of the query
ListByOptionsIgnoresUnknown(d, lo, scan) ==
    LET Known(f) == f.field \in Fields
        filters == SelectSeq(lo.Filters, Known)
        sort == [lo.Sort EXCEPT !.primaryField = IF @ \in Fields THEN @ ELSE "",
                                !.secondaryField = IF @ \in Fields THEN @ ELSE ""]
        rows == {r \in SourceRows(d, lo.Revision) : Matches(r, filters)}
        page == LimitOffset(OrderBy(rows, sort, scan), lo.Pagination)
    IN [items |-> [i \in DOMAIN page |-> Decode(page[i].object)], err |-> Nil]

\* ListByOptions; scan is the order in which the database scans the rows of
\* the source, which no statement of the query fixes
ListByOptions(d, lo, scan) ==
    IF ~(FieldsNamed(lo) \subseteq Fields) THEN [items |-> <<>>, err |-> "UnknownField"]
    ELSE LET rows == {r \in SourceRows(d, lo.Revision) : Matches(r, lo.Filters)}
             page == LimitOffset(OrderBy(rows, lo.Sort, scan), lo.Pagination)
         IN [items |-> [i \in DOMAIN page |-> Decode(page[i].object)], err |-> Nil]

\* the orders in which the rows of the keys of d can be scanned
ScanOrders(d) ==
    LET keys == (DOMAIN d.objects) \cup {h.key : h \in d.object_history}
    IN {scan \in [1..Cardinality(keys) -> keys] :
           \A i, j \in 1..Cardinality(keys) : i # j => scan[i] # scan[j]}

AnyScan(d) == CHOOSE scan \in ScanOrders(d) : TRUE

\* the objects a query returns, whatever their order
Listed(d, lo) == Range(ListByOptions(d, lo, AnyScan(d)).items)

(***************************************************************************)
(* History                                                                 *)
(***************************************************************************)
MaxRows(d, key) == {h \in HistoryOf(d, key) : h.version = MaxVersion(d, key)}

\* C3: tombstone invariant.  Provided the versions written to each key never
\* decrease, every key that has a current object has its greatest-version
\* history row with deleted = 0; and right after Delete(k) returned for a key
\* with history, the greatest-version row of k has deleted = 1.
TombstoneInvariant ==
    /\ monotonic =>
         \A k \in DOMAIN objects :
             MaxRows(DB, k) # {} /\ \A h \in MaxRows(DB, k) : h.deleted = 0
    /\ (lastOp.op = "Delete" /\ lastOp.err = Nil /\ HistoryOf(DB, lastOp.key) # {}) =>
         \A h \in MaxRows(DB, lastOp.key) : h.deleted = 1

\* a key with two versions of history, the older one not deleted, was deleted
\* while the other key has a current object and one history row
TombstoneWitness ==
    /\ monotonic /\ lastOp.op = "Delete" /\ lastOp.err = Nil /\ lastOp.existed
    /\ Cardinality(HistoryOf(DB, lastOp.key)) = 2
    /\ \E h \in HistoryOf(DB, lastOp.key) : h.deleted = 0
    /\ \E k \in DOMAIN objects : k # lastOp.key /\ Cardinality(HistoryOf(DB, k)) = 1

\* the keys whose greatest-version history row is not deleted
LiveInHistory(d) ==
    {k \in AllKeys : MaxRows(d, k) # {} /\ \A h \in MaxRows(d, k) : h.deleted = 0}

\* C4: the latest-objects view is a projection of history.  With non-decreasing
\* versions per key, after any Add/Update/Delete/Replace has returned, the keys
\* List()/ListKeys() return are exactly the keys whose greatest-version history
\* row has deleted = 0; a key dropped by Replace is not left alive in history.
LatestViewIsProjection ==
    (monotonic /\ repl.pc = "idle") => DOMAIN objects = LiveInHistory(DB)

\* the greatest version of the key's history that is at most R, if any
RowsUpTo(d, key, R) == {h \in HistoryOf(d, key) : h.version <= R}
AliveAt(d, key, R) ==
    /\ RowsUpTo(d, key, R) # {}
    /\ \E h \in RowsUpTo(d, key, R) :
           h.deleted = 0 /\ \A g \in RowsUpTo(d, key, R) : g.version <= h.version

CountAt(revision) ==
    Len(ListByOptions(DB, ListOptions(<<Filter("Brand", ferrari)>>, revision), AnyScan(DB)).items)

\* C6: scenario S4.  After Add(testa rossa, rev 1, ferrari), Add(focus, rev 2,
\* ford), Delete(testa rossa), Update(testa rossa, rev 3), filtering on
\* Brand = "ferrari" returns 1 item at revision "1", 0 at "2" and 1 at "3".
ScenarioS4 ==
    scenario = 4 => <<CountAt(<<"1">>), CountAt(<<"2">>), CountAt(<<"3">>)>> = <<1, 0, 1>>

\* C7: history monotonicity.  The history holds exactly one row per distinct
\* <<key, version>> written; writing a key again at a version it already has
\* keeps a single row, replaces its blob and resets deleted to 0.
HistoryMonotonicity ==
    /\ {<<h.key, h.version>> : h \in object_history} = written
    /\ \A h1, h2 \in object_history :
           (h1.key = h2.key /\ h1.version = h2.version) => h1 = h2
    /\ (lastOp.op = "Upsert" /\ lastOp.err = Nil) =>
           \E h \in object_history :
               /\ h.key = lastOp.key
               /\ h.version = versionfunc(Decode(objects[lastOp.key]))
               /\ h.object = objects[lastOp.key]
               /\ h.deleted = 0

\* a deleted key was written again at the version its history already held,
\* with another object
HistoryMonotonicityWitness ==
    /\ lastOp.op = "Upsert" /\ lastOp.err = Nil /\ lastOp.repeat /\ ~lastOp.existed
    /\ lastOp.key = "key1" /\ written = {<<"key1", 1>>}
    /\ brandfunc(Decode(objects["key1"])) = ford

\* the call is made to fail between Begin and Commit
FailsAfterBegin(obj, fault) ==
    \/ fault # "none"
    \/ IndexInsertFails(deleteIndicesStmt(upsertStmt(DB, keyfunc(obj), Encode(obj)),
                                          keyfunc(obj)), keyfunc(obj), obj)

\* C8: a failed upsert is atomic.  If an Upsert fails after its transaction was
\* begun (the index function errs, an index row cannot be inserted, the
\* after-upsert hook errs), the object record, the index rows and the history
\* rows are exactly as before and the error is returned.  (Every step either
\* returns an error and leaves the three tables alone, or is no Upsert, or is
\* no Upsert that was made to fail.)
FailedUpsertIsAtomic ==
    [][\/ lastOp'.err # Nil /\ UNCHANGED <<objects, indices, object_history>>
       \/ lastOp'.op # "Upsert"
       \/ \A obj \in VerObjs : \A fault \in Faults :
              ~(/\ lastOp'.key = keyfunc(obj)
                /\ FailsAfterBegin(obj, fault)
                /\ Add(obj, fault, TRUE) \/ Update(obj, fault, TRUE))]_vars

\* the after-upsert hook failed on a key that has an object and history
FailedUpsertWitness ==
    /\ lastOp.op = "Upsert" /\ lastOp.err = "versionFunc" /\ lastOp.existed
    /\ lastOp.key \in DOMAIN objects /\ HistoryOf(DB, lastOp.key) # {}

(***************************************************************************)
(* Replace                                                                 *)
(***************************************************************************)
\* the objects and index rows of a store that holds exactly the map m
ContentsOf(m) ==
    [objects |-> [k \in DOMAIN m |-> Encode(m[k])],
     indices |-> UNION {NewIndexRows(k, m[k]) : k \in DOMAIN m}]

\* C9: Replace(m) is a single transaction.  A reader running while Replace is
\* in progress observes either the complete contents from before the call or
\* the complete contents after it, never an empty or partial store.
ReplaceIsOneTransaction ==
    repl.pc = "running" =>
        \/ Contents(DB) = repl.before
        \/ Contents(DB) = ContentsOf(repl.target)

\* C10: a failed Replace rolls back.  If Replace returns an error, the store
\* holds exactly the objects and index rows it held before the call.
FailedReplaceRollsBack ==
    [][(repl.pc = "running" /\ lastOp'.op = "Replace" /\ lastOp'.err # Nil)
           => Contents(DB)' = repl.before]_vars

(***************************************************************************)
(* Hooks and the transaction of the write                                  *)
(***************************************************************************)
\* the history row of the write that stored the key's current object
HasOwnHistoryRow(d, key) ==
    \E h \in d.object_history :
        /\ h.key = key
        /\ h.version = versionfunc(Decode(d.objects[key]))
        /\ h.object = d.objects[key]

\* C11: hooks share the write's transaction.  No committed state has the
\* object record or index rows of a write without the history row of that
\* write (an Add/Update whose after-upsert hook fails commits nothing), and a
\* Delete whose after-delete hook fails leaves the object record in place.
HooksShareTransaction ==
    /\ \A k \in DOMAIN objects : HasOwnHistoryRow(DB, k)
    /\ \A r \in indices : r.key \in DOMAIN objects /\ HasOwnHistoryRow(DB, r.key)
    /\ (lastOp.op = "Upsert" /\ lastOp.err = "versionFunc" /\ ~lastOp.existed) =>
           /\ lastOp.key \notin DOMAIN objects
           /\ \A r \in indices : r.key # lastOp.key
    /\ (lastOp.op = "Delete" /\ lastOp.err = "hook" /\ lastOp.existed) =>
           lastOp.key \in DOMAIN objects

\* the after-delete hook failed and the key still has its object, its index
\* rows and an untouched history row
HooksShareTransactionWitness ==
    /\ lastOp.op = "Delete" /\ lastOp.err = "hook" /\ lastOp.existed
    /\ lastOp.key \in DOMAIN objects
    /\ \E r \in indices : r.key = lastOp.key
    /\ \A h \in HistoryOf(DB, lastOp.key) : h.deleted = 0

(***************************************************************************)
(* Reads of the latest objects.  Lists are returned in no specified order  *)
(* and are modelled as the set of their elements.                          *)
(***************************************************************************)
\* queryObjects: every selected blob is decoded
queryObjects(blobs) == {Decode(b) : b \in blobs}

\* SELECT object FROM objects WHERE key = ?
SafeGet(d, key) ==
    LET result == queryObjects({d.objects[k] : k \in (DOMAIN d.objects) \cap {key}})
    IN IF result = {} THEN [item |-> Nil, exists |-> FALSE, err |-> Nil]
       ELSE [item |-> CHOOSE o \in result : TRUE, exists |-> TRUE, err |-> Nil]

GetByKey(d, key) == SafeGet(d, key)

Get(d, obj) == GetByKey(d, keyfunc(obj))

\* SELECT object FROM objects
SafeList(d) == queryObjects({d.objects[k] : k \in DOMAIN d.objects})

\* SELECT key FROM objects
SafeListKeys(d) == DOMAIN d.objects

\* the step is one Add, Update or Delete call (not a step of Replace)
SingleWriteStep ==
    /\ repl.pc = "idle" /\ repl'.pc = "idle"
    /\ lastOp'.op \in {"Upsert", "Delete"}

\* C12: round trip.  After a successful Upsert(k, o) (Add or Update),
\* GetByKey(k) returns (o, exists = true), whether or not k held an object
\* before, and keeps returning it until the next write on k; Get(obj) returns
\* what GetByKey(KeyFunc(obj)) returns.
RoundTrip ==
    [][/\ \A obj \in StoreObjs : \A fault \in Faults :
              ((Add(obj, fault, FALSE) \/ Update(obj, fault, FALSE)) /\ lastOp'.err = Nil)
                  => GetByKey(DB', keyfunc(obj)) = [item |-> obj, exists |-> TRUE, err |-> Nil]
       /\ \A k \in Keys :
              (SingleWriteStep /\ lastOp'.key # k) => GetByKey(DB', k) = GetByKey(DB, k)
       /\ \A obj \in StoreObjs : Get(DB', obj) = GetByKey(DB', keyfunc(obj))]_vars

\* key1 was overwritten by a successful upsert while key2 holds another object
RoundTripWitness ==
    /\ lastOp.op = "Upsert" /\ lastOp.err = Nil /\ lastOp.existed /\ lastOp.key = "key1"
    /\ GetByKey(DB, "key1").exists /\ GetByKey(DB, "key1").item.Val = <<"foo", "bar">>
    /\ GetByKey(DB, "key2").exists /\ GetByKey(DB, "key2").item.Val = <<"foo">>

(***************************************************************************)
(* Index lookups                                                           *)
(***************************************************************************)
\* SELECT key FROM indices WHERE name = ? AND value = ?
KeysUnder(d, name, value) ==
    {r.key : r \in {x \in d.indices : x.name = name /\ x.value = value}}

\* ByIndex: SELECT object FROM objects WHERE key IN (SELECT key FROM indices
\*   WHERE name = ? AND value = ?); the name is not looked up in the indexers
ByIndex(d, indexName, indexedValue) ==
    [items |-> queryObjects({d.objects[k] :
                   k \in (DOMAIN d.objects) \cap KeysUnder(d, indexName, indexedValue)}),
     err |-> Nil]

\* IndexKeys: SELECT DISTINCT key FROM indices WHERE name = ? AND value = ?
IndexKeys(d, indexName, indexedValue) ==
    IF indexName \notin Indexers
    THEN [keys |-> {}, err |-> "Index with name does not exist"]
    ELSE [keys |-> KeysUnder(d, indexName, indexedValue), err |-> Nil]

\* every value an index row of the stored objects can carry
AllValues == UNION {Range(IndexFunc(n, o)) : n \in Indexers, o \in StoreObjs}

\* C13: delete cascade.  After DeleteByKey(k) succeeds no index row references
\* k, GetByKey(k) returns exists = false, k is absent from List and ListKeys,
\* and every index lookup returns what it returned before without k's object:
\* the other objects sharing the index value are still returned.
DeleteCascade ==
    [][(SingleWriteStep /\ lastOp'.op = "Delete" /\ lastOp'.err = Nil) =>
           LET k == lastOp'.key
           IN /\ \A r \in indices' : r.key # k
              /\ ~GetByKey(DB', k).exists
              /\ k \notin SafeListKeys(DB')
              /\ \A o \in SafeList(DB') : keyfunc(o) # k
              /\ \A n \in Indexers : \A v \in AllValues :
                     /\ ByIndex(DB', n, v).items
                          = {o \in ByIndex(DB, n, v).items : keyfunc(o) # k}
                     /\ IndexKeys(DB', n, v).keys = IndexKeys(DB, n, v).keys \ {k}]_vars

\* a stored key was deleted and the lookup of a value still returns the object
\* of the other key
DeleteCascadeWitness ==
    /\ lastOp.op = "Delete" /\ lastOp.err = Nil /\ lastOp.existed /\ repl.pc = "idle"
    /\ ~GetByKey(DB, lastOp.key).exists
    /\ ByIndex(DB, "testIndexer", "foo").items # {}
    /\ ByIndex(DB, "testIndex", "testIndex").items = ByIndex(DB, "testIndexer", "foo").items

\* C14: Replace result.  After Replace(m) succeeds, ListKeys() is exactly the
\* key set of m, GetByKey(k) = m[k] for every k in m, every object stored
\* before whose key is not in m is gone, and the index rows are exactly those
\* derived from the objects of m.
ReplaceResult ==
    [][/\ (repl.pc = "running" /\ repl'.pc = "idle" /\ lastOp'.err = Nil) =>
              /\ SafeListKeys(DB') = DOMAIN repl.target
              /\ \A k \in DOMAIN repl.target :
                     GetByKey(DB', k) = [item |-> repl.target[k], exists |-> TRUE, err |-> Nil]
              /\ \A k \in (DOMAIN repl.before.objects) \ (DOMAIN repl.target) :
                     ~GetByKey(DB', k).exists
              /\ indices' = ContentsOf(repl.target).indices
       /\ (repl.pc = "idle" /\ repl'.pc = "idle" /\ lastOp'.op = "Replace" /\ lastOp'.err = Nil) =>
              SafeListKeys(DB') = {} /\ indices' = {}]_vars

\* a Replace has returned nil and the store holds exactly key2 with its two
\* index values
ReplaceResultWitness ==
    /\ repl.pc = "idle" /\ lastOp.op = "Replace" /\ lastOp.err = Nil
    /\ SafeListKeys(DB) = {"key2"}
    /\ GetByKey(DB, "key2").item.Val = <<"foo", "bar">>

(***************************************************************************)
(* Add and Update                                                          *)
(***************************************************************************)
\* the write of obj is not made to fail: no injected fault, no lock held by an
\* unfinished transaction, no index value returned twice
CanSucceed(obj, fault) ==
    /\ fault = "none" /\ ~dbLocked
    /\ \A n \in Indexers : ~HasDuplicate(IndexFunc(n, obj))

\* C15: Add and Update are the same upsert.  From any state Add(o) and
\* Update(o) produce identical results; Add on a key that exists overwrites it
\* without error and Update on a key that does not exist (also one removed by
\* an earlier Delete) creates it, so that it appears in List.
AddUpdateSameUpsert ==
    \A obj \in StoreObjs : \A fault \in Faults :
        LET key == keyfunc(obj)
            a == SafeAdd(DB, key, obj, fault, dbLocked)
            u == SafeUpdate(DB, key, obj, fault, dbLocked)
        IN /\ a = u
           /\ CanSucceed(obj, fault) =>
                  /\ a.err = Nil /\ u.err = Nil
                  /\ GetByKey(a.db, key) = [item |-> obj, exists |-> TRUE, err |-> Nil]
                  /\ obj \in SafeList(u.db)

\* a stored key has just been deleted, the other key is still stored, and
\* Update of the deleted key brings it back into List
AddUpdateSameUpsertWitness ==
    /\ lastOp.op = "Delete" /\ lastOp.err = Nil /\ lastOp.existed /\ repl.pc = "idle"
    /\ SafeListKeys(DB) # {} /\ lastOp.key \notin SafeListKeys(DB)
    /\ \E obj \in StoreObjs :
           /\ keyfunc(obj) = lastOp.key
           /\ obj \in SafeList(SafeUpdate(DB, lastOp.key, obj, "none", dbLocked).db)

(***************************************************************************)
(* Index                                                                   *)
(***************************************************************************)
\* Index looking up the first value only
IndexFirstValue(d, indexName, values) ==
    IF Len(values) = 0 THEN [items |-> {}, err |-> Nil]
    ELSE ByIndex(d, indexName, values[1])

\* Index, after the values were computed: no value, one value (ByIndex), or
\*   SELECT object FROM objects WHERE key IN (SELECT key FROM indices
\*     WHERE name = ? AND value IN (?, ?, ...))
IndexValues(d, indexName, values) ==
    IF Len(values) = 0 THEN [items |-> {}, err |-> Nil]
    ELSE IF Len(values) = 1 THEN ByIndex(d, indexName, values[1])
    ELSE [items |-> queryObjects({d.objects[k] :
                        k \in (DOMAIN d.objects)
                              \cap {r.key : r \in {x \in d.indices :
                                        x.name = indexName /\ x.value \in Range(values)}}}),
          err |-> Nil]

\* Index: the name is looked up in the indexers, the index function is applied
Index(d, indexName, obj) ==
    IF indexName \notin Indexers
    THEN [items |-> {}, err |-> "Index with name does not exist"]
    ELSE IndexValues(d, indexName, IndexFunc(indexName, obj))

\* the value lists an index function may return: none, one, two values
ValueLists ==
    {<<>>} \cup {<<v>> : v \in AllValues} \cup {<<v, w>> : v \in AllValues, w \in AllValues}

\* the current objects whose key has an index row (name, v) for a v among values
IndexedUnder(d, name, values) ==
    {o \in SafeList(d) :
        \E v \in Range(values) : [name |-> name, value |-> v, key |-> keyfunc(o)] \in d.indices}

\* C16: Index(name, obj) for a registered name returns exactly the current
\* objects whose key has an index row (name, v) for at least one v in
\* indexers[name](obj): the empty list for no value, the result of
\* ByIndex(name, v) for exactly one value v, the union over the values for
\* several.
IndexReturnsIndexed ==
    \A n \in Indexers :
        /\ \A obj \in StoreObjs :
               Index(DB, n, obj) = [items |-> IndexedUnder(DB, n, IndexFunc(n, obj)), err |-> Nil]
        /\ \A values \in ValueLists :
               LET got == IndexValues(DB, n, values)
               IN /\ got.err = Nil
                  /\ got.items = IndexedUnder(DB, n, values)
                  /\ Len(values) = 0 => got.items = {}
                  /\ Len(values) = 1 => got = ByIndex(DB, n, values[1])
                  /\ got.items = UNION {ByIndex(DB, n, v).items : v \in Range(values)}

\* two stored objects are indexed under different values: the lookup of both
\* values returns both objects, Index of an object with one of them returns one
IndexReturnsIndexedWitness ==
    /\ Cardinality(ByIndex(DB, "testIndexer", "foo").items) = 1
    /\ Cardinality(ByIndex(DB, "testIndexer", "").items) = 1
    /\ Cardinality(IndexValues(DB, "testIndexer", <<"foo", "">>).items) = 2
    /\ Cardinality(Index(DB, "testIndexer", Car("key1", 1, ferrari, <<"foo", "bar">>)).items) = 1

\* index names that no indexer was registered under
UnknownNames == {"by_val"}

\* C17: unknown index names are input errors.  Index(name, obj),
\* IndexKeys(name, value) and ByIndex(name, value) each return an error when
\* name is not a registered indexer.  (None of them writes to the store.)
UnknownIndexIsAnError ==
    \A name \in UnknownNames :
        /\ \A obj \in StoreObjs : Index(DB, name, obj).err # Nil
        /\ \A v \in AllValues : IndexKeys(DB, name, v).err # Nil
        /\ \A v \in AllValues : ByIndex(DB, name, v).err # Nil

(***************************************************************************)
(* GetByKeyAndVersion                                                      *)
(***************************************************************************)
\* getByVersionStmt reading only the rows that are not deleted
getByVersionStmtLive(d, key, version) ==
    {h.object : h \in {x \in d.object_history :
                          x.key = key /\ x.version = version /\ x.deleted = 0}}

\* SELECT object FROM object_history WHERE key = ? AND version = ?
getByVersionStmt(d, key, version) ==
    {h.object : h \in {x \in d.object_history : x.key = key /\ x.version = version}}

GetByKeyAndVersion(d, key, version) ==
    LET result == queryObjects(getByVersionStmt(d, key, version))
    IN IF result = {} THEN [item |-> Nil, exists |-> FALSE, err |-> Nil]
       ELSE [item |-> CHOOSE o \in result : TRUE, exists |-> TRUE, err |-> Nil]

\* C18: GetByKeyAndVersion(k, v) returns exists = true with the blob of history
\* row (k, v) if and only if such a row exists, deleted or not; it returns
\* exists = false and no error when there is no such row, and never the blob
\* of another version.
GetByKeyAndVersionExact ==
    \A k \in Keys : \A v \in 0..(MaxRev + 1) :
        LET got == GetByKeyAndVersion(DB, k, v)
        IN /\ got.err = Nil
           /\ got.exists <=> RowExists(DB, k, v)
           /\ got.exists =>
                  /\ \E h \in object_history :
                         h.key = k /\ h.version = v /\ Decode(h.object) = got.item
                  /\ keyfunc(got.item) = k /\ versionfunc(got.item) = v
           /\ ~got.exists => got.item = Nil

\* the blob of a deleted row is returned, another version of the key exists
\* and a third does not
GetByKeyAndVersionWitness ==
    \E h \in object_history :
        /\ h.deleted = 1
        /\ GetByKeyAndVersion(DB, h.key, h.version)
             = [item |-> Decode(h.object), exists |-> TRUE, err |-> Nil]
        /\ \E v \in 1..MaxRev : v # h.version /\ GetByKeyAndVersion(DB, h.key, v).exists
        /\ ~GetByKeyAndVersion(DB, h.key, 0).exists

(***************************************************************************)
(* C19: field columns                                                      *)
(***************************************************************************)
\* the latest objects, decoded
LatestObjects == {Decode(objects[k]) : k \in DOMAIN objects}

BrandMatches == {<<>>, <<"f">>, ferrari, ford}

\* the items are in the order of their own Brand values
InBrandOrder(items, order) ==
    \A i, j \in DOMAIN items :
        i < j => ~InOrder(brandfunc(items[j]), brandfunc(items[i]), order)

\* C19: every key with a current object has, for every registered field, a
\* column equal to the field function applied to that object, so after an
\* update the columns carry the values of the new object; a filter on a field
\* of the latest view returns exactly the latest objects whose own value
\* contains the match, and a sort on it puts the latest objects in the order of
\* their own values
FieldColumns ==
    /\ DOMAIN fields = DOMAIN objects
    /\ \A k \in DOMAIN objects, f \in Fields :
          fields[k][f] = fieldFunc(f, Decode(objects[k]))
    /\ \A match \in BrandMatches :
          Listed(DB, ListOptions(<<Filter("Brand", match)>>, <<>>))
            = {o \in LatestObjects : Contains(brandfunc(o), match)}
    /\ \A scan \in ScanOrders(DB), order \in {"", "DESC"} :
          LET got == ListByOptions(DB, SortedBy(ListOptions(<<>>, <<>>),
                                                Sort("Brand", order, "", "")), scan)
          IN /\ got.err = Nil
             /\ Range(got.items) = LatestObjects
             /\ InBrandOrder(got.items, order)

\* an update has just replaced a ferrari by a ford under key1 while key2 holds
\* a ferrari: the column of key1 is ford, the filter on ford returns only the
\* object of key1 and the sort on Brand puts it after the ferrari
FieldColumnsWitness ==
    /\ lastOp.op = "Upsert" /\ lastOp.err = Nil /\ lastOp.key = "key1"
    /\ lastOp.existed /\ ~lastOp.repeat
    /\ \E h \in object_history :
          h.key = "key1" /\ brandfunc(Decode(h.object)) = ferrari
    /\ "key1" \in DOMAIN objects /\ "key2" \in DOMAIN objects
    /\ fields["key1"].Brand = ford
    /\ fields["key2"].Brand = ferrari
    /\ Listed(DB, ListOptions(<<Filter("Brand", ford)>>, <<>>)) = {Decode(objects["key1"])}
    /\ \A scan \in ScanOrders(DB) :
          ListByOptions(DB, SortedBy(ListOptions(<<>>, <<>>), Sort("Brand", "", "", "")), scan).items
            = <<Decode(objects["key2"]), Decode(objects["key1"])>>

(***************************************************************************)
(* C20: pagination totality                                                *)
(***************************************************************************)
MaxPageSize == 3

FiltersChecked == {<<>>, <<Filter("Brand", <<"f">>)>>}

SortsChecked ==
    {NoSort, Sort("Color", "", "", ""), Sort("Color", "DESC", "", ""),
     Sort("Brand", "", "", ""), Sort("Brand", "DESC", "Color", ""), Sort("", "", "Color", "")}

RevisionsChecked == {<<>>, Itoa(1), Itoa(2)}

\* ceil(N / pageSize)
PageCount(N, pageSize) == (N + pageSize - 1) \div pageSize

\* the results of pages 1..n, one query per page, concatenated
RECURSIVE ConcatPages(_, _, _, _, _)
ConcatPages(d, lo, scan, pageSize, n) ==
    IF n = 0 THEN <<>>
    ELSE ConcatPages(d, lo, scan, pageSize, n - 1)
           \o ListByOptions(d, PagedBy(lo, Pagination(pageSize, n)), scan).items

MaxPage == 4

\* C21: with pageSize > 0 the result holds at most pageSize objects, the
\* i-th of them being the object at position pageSize*(max(page,1)-1) + i of
\* the unpaginated result and none missing before the end of that result, so
\* page 0 and page 1 return the same objects and a page past the end is empty;
\* with pageSize = 0 the whole result is returned whatever the page
PageArithmetic ==
    \A scan \in ScanOrders(DB), filters \in FiltersChecked,
       sort \in {NoSort, Sort("Color", "DESC", "", "")} :
        LET lo == SortedBy(ListOptions(filters, <<>>), sort)
            all == ListByOptions(DB, lo, scan).items
            Paged(pageSize, page) ==
                ListByOptions(DB, PagedBy(lo, Pagination(pageSize, page)), scan)
        IN \A page \in 0..MaxPage :
             /\ Paged(0, page).err = Nil /\ Paged(0, page).items = all
             /\ \A pageSize \in 1..MaxPageSize :
                   LET got == Paged(pageSize, page).items
                       offset == pageSize * ((IF page >= 1 THEN page ELSE 1) - 1)
                   IN /\ Len(got) <= pageSize
                      /\ \A i \in 1..pageSize :
                            IF offset + i <= Len(all)
                            THEN i <= Len(got) /\ got[i] = all[offset + i]
                            ELSE i > Len(got)
                      /\ page = 0 => got = Paged(pageSize, 1).items
                      /\ offset >= Len(all) => got = <<>>

\* three cars sorted by Color descending: page size 2 gives red, blue on the
\* unset page and on page 1, black alone on page 2 and nothing on page 3, and
\* page size 0 with page 3 gives all three
PageArithmeticWitness ==
    \E scan \in ScanOrders(DB) :
        LET lo == SortedBy(ListOptions(<<>>, <<>>), Sort("Color", "DESC", "", ""))
            Paged(pageSize, page) ==
                ListByOptions(DB, PagedBy(lo, Pagination(pageSize, page)), scan).items
        IN /\ Paged(2, 0) = <<red3, blue>>
           /\ Paged(2, 1) = <<red3, blue>>
           /\ Paged(2, 2) = <<black>>
           /\ Paged(2, 3) = <<>>
           /\ Paged(0, 3) = <<red3, blue, black>>

(***************************************************************************)
(* C22: filter semantics                                                   *)
(***************************************************************************)
MatchesChecked == {<<>>, <<"f">>, <<"e">>, <<"r", "e", "d">>, <<"x">>, <<"F">>, <<"_">>}

SingleFilters == {<<Filter(f, m)>> : f \in Fields, m \in MatchesChecked}

FilterLists ==
    {<<>>} \cup SingleFilters
           \cup {<<Filter("Brand", a), Filter("Color", b)>> : a \in MatchesChecked, b \in MatchesChecked}

\* C22: the result is the unfiltered result restricted to the objects whose
\* own field values contain the match of every filter; adding a filter with
\* the empty match changes nothing and a filter no value contains gives the
\* empty list
FilterSemantics ==
    \A revision \in {<<>>, Itoa(2)} :
        LET scan == AnyScan(DB)
            Query(filters) ==
                ListByOptions(DB, SortedBy(ListOptions(filters, revision),
                                           Sort("Color", "DESC", "", "")), scan)
            all == Query(<<>>).items
        IN /\ \A filters \in FilterLists :
                 LET Passes(o) ==
                         \A i \in DOMAIN filters :
                             Contains(fieldFunc(filters[i].field, o), filters[i].match)
                 IN /\ Query(filters).err = Nil
                    /\ Query(filters).items = SelectSeq(all, Passes)
           /\ \A filters \in {<<>>} \cup SingleFilters, f \in Fields :
                 /\ Query(filters \o <<Filter(f, <<>>)>>).items = Query(filters).items
                 /\ Query(<<Filter(f, <<"x">>)>> \o filters).items = <<>>

(***************************************************************************)
(* C23: sort semantics                                                     *)
(***************************************************************************)
SortsOrdered ==
    {NoSort,
     Sort("Brand", "", "", ""), Sort("Brand", "ASC", "", ""), Sort("Brand", "DESC", "", ""),
     Sort("Color", "DESC", "", ""),
     Sort("Brand", "", "Color", ""), Sort("Brand", "", "Color", "DESC"),
     Sort("Brand", "DESC", "Color", "ASC"), Sort("Color", "", "Brand", "DESC"),
     Sort("", "", "Color", ""), Sort("", "", "Brand", "DESC")}

\* a before b is allowed by the direction: not after it
NotAfter(a, b, order) == IF order = "DESC" THEN ~StrLess(a, b) ELSE ~StrLess(b, a)

\* C23: with a primary field the objects are in the order of their own values
\* of that field, ascending unless DESC is asked, and objects equal in it are
\* in the order of their values of the secondary field when one is given;
\* a secondary field without a primary one leaves the result as it is without
\* any sort; a sort never changes which objects are returned
SortSemantics ==
    \A scan \in ScanOrders(DB), sort \in SortsOrdered :
        LET lo == ListOptions(<<>>, <<>>)
            plain == ListByOptions(DB, lo, scan)
            got == ListByOptions(DB, SortedBy(lo, sort), scan)
            p == sort.primaryField
            q == sort.secondaryField
        IN /\ got.err = Nil
           /\ Len(got.items) = Len(plain.items)
           /\ Range(got.items) = Range(plain.items)
           /\ p = "" => got.items = plain.items
           /\ p # "" =>
                 \A i, j \in DOMAIN got.items :
                     i < j =>
                        LET a == fieldFunc(p, got.items[i])
                            b == fieldFunc(p, got.items[j])
                        IN /\ NotAfter(a, b, sort.primaryOrder)
                           /\ (a = b /\ q # "") =>
                                 NotAfter(fieldFunc(q, got.items[i]), fieldFunc(q, got.items[j]),
                                          sort.secondaryOrder)

\* a red ferrari, a blue ferrari and the black tesla: Brand ascending with
\* Color descending puts red before blue among the ferraris and the tesla
\* last, Brand descending alone puts the tesla first, and Color as a
\* secondary field alone returns the cars as they are scanned
SortSemanticsWitness ==
    /\ LatestObjects = {red3, blue5, black}
    /\ \A scan \in ScanOrders(DB) :
          LET Query(sort) == ListByOptions(DB, SortedBy(ListOptions(<<>>, <<>>), sort), scan).items
          IN /\ Query(Sort("Brand", "", "Color", "DESC")) = <<red3, blue5, black>>
             /\ Query(Sort("Brand", "", "Color", "")) = <<blue5, red3, black>>
             /\ Head(Query(Sort("Brand", "DESC", "", ""))) = black
             /\ Query(Sort("", "", "Color", "")) = Query(NoSort)
    /\ \E scan \in ScanOrders(DB) :
          ListByOptions(DB, ListOptions(<<>>, <<>>), scan).items = <<red3, black, blue5>>

(***************************************************************************)
(* C24: unknown field paths                                                *)
(***************************************************************************)
\* field paths that were not registered: a field of Car without a field
\* function and a name Car does not have
UnknownFields == {"Revision", "Doors"}

\* C24: a query whose filter, primary sort field or secondary sort field
\* names an unregistered field path returns the UnknownField error and no
\* object, whatever else it asks for, while the same query without that path
\* returns without error
UnknownFieldIsAnError ==
    \A scan \in ScanOrders(DB), unknown \in UnknownFields, revision \in {<<>>, Itoa(2)},
       pagination \in {NoPagination, Pagination(2, 1)} :
        LET lo == PagedBy(SortedBy(ListOptions(<<Filter("Brand", <<"f">>)>>, revision),
                                   Sort("Color", "DESC", "", "")), pagination)
            Failed(r) == r.err = "UnknownField" /\ r.items = <<>>
        IN /\ ListByOptions(DB, lo, scan).err = Nil
           /\ Failed(ListByOptions(DB, [lo EXCEPT !.Filters = @ \o <<Filter(unknown, <<>>)>>], scan))
           /\ Failed(ListByOptions(DB, [lo EXCEPT !.Filters = <<Filter(unknown, <<"f">>)>>], scan))
           /\ Failed(ListByOptions(DB, SortedBy(lo, Sort(unknown, "", "", "")), scan))
           /\ Failed(ListByOptions(DB, SortedBy(lo, Sort("Color", "", unknown, "DESC")), scan))

\* with red and blue stored the query Brand ~ "f" sorted by Color descending
\* returns them, and the same query sorted by Doors, or with a filter with
\* the empty match on Revision, returns the error and nothing
UnknownFieldWitness ==
    \E scan \in ScanOrders(DB) :
        LET lo == SortedBy(ListOptions(<<Filter("Brand", <<"f">>)>>, <<>>), Sort("Color", "DESC", "", ""))
        IN /\ ListByOptions(DB, lo, scan) = [items |-> <<red3, blue>>, err |-> Nil]
           /\ ListByOptions(DB, SortedBy(lo, Sort("Doors", "", "", "")), scan)
                = [items |-> <<>>, err |-> "UnknownField"]
           /\ ListByOptions(DB, [lo EXCEPT !.Filters = @ \o <<Filter("Revision", <<>>)>>], scan)
                = [items |-> <<>>, err |-> "UnknownField"]

(***************************************************************************)
(* C25: atomic visibility of a write                                       *)
(***************************************************************************)
\* the whole Upsert or DeleteByKey of transaction t applied to its tables d
WholeCall(t, d) ==
    IF t.op = "Upsert" THEN Upsert(d, t.key, t.obj, t.fault, FALSE)
    ELSE DeleteByKey(d, t.key, t.fault, FALSE)

\* C25: while a write is being executed a reader finds the tables as they
\* were before it, and once it has returned the tables are either those of
\* before (the call returned an error) or those of the whole write; at no
\* time does the reader find an object whose index rows are not those of the
\* stored blob, an index row without its object, or an object whose blob is
\* not in a live history row
AtomicVisibility ==
    /\ tx.pc # "idle" => DB = tx.before
    /\ (tx.pc = "idle" /\ tx.op # "") =>
          IF lastOp.err = Nil
          THEN DB = WholeCall(tx, tx.before).db /\ WholeCall(tx, tx.before).err = Nil
          ELSE DB = tx.before
    /\ \A k \in DOMAIN objects :
          /\ {r \in indices : r.key = k} = NewIndexRows(k, Decode(objects[k]))
          /\ \E h \in object_history : h.key = k /\ h.object = objects[k] /\ h.deleted = 0
    /\ \A r \in indices : r.key \in DOMAIN objects

\* the update of key1 from the ferrari with index values foo, bar to the ford
\* with index value bar has executed its upsert and deleted the index rows
\* within the transaction: the transaction holds the new blob without index
\* rows while the reader still finds the old blob and its index rows
AtomicVisibilityWitness ==
    /\ tx.pc = "insertIndicesStmt" /\ tx.op = "Upsert" /\ tx.key = "key1"
    /\ tx.obj = Car("key1", 2, ford, <<"bar">>)
    /\ tx.db.objects["key1"] = Encode(tx.obj)
    /\ {r \in tx.db.indices : r.key = "key1"} = {}
    /\ "key1" \in DOMAIN objects
    /\ objects["key1"] = Encode(Car("key1", 1, ferrari, <<"foo", "bar">>))
    /\ {r \in indices : r.key = "key1"} # {}

(***************************************************************************)
(* C26: history is never reclaimed                                         *)
(***************************************************************************)
\* C26: no step of Add, Update, Delete or Replace removes a <<key, version>>
\* pair from the history, and a Delete leaves every history row as it was
\* but for the deleted flag, which it may only set
HistoryNeverReclaimed ==
    [][/\ \A h \in object_history :
             \E g \in object_history' : g.key = h.key /\ g.version = h.version
       /\ (lastOp'.op = "Delete" /\ repl.pc # "running" /\ repl'.pc = "idle") =>
                \A g \in object_history' :
                   \E h \in object_history :
                       /\ h.key = g.key /\ h.version = g.version /\ h.object = g.object
                       /\ g.deleted = h.deleted \/ (h.deleted = 0 /\ g.deleted = 1)
      ]_vars

\* a Replace has returned, the history holds both versions of one key, a row
\* flagged deleted, and a row of a key that has no object any more
HistoryNeverReclaimedWitness ==
    /\ lastOp.op = "Replace" /\ lastOp.err = Nil
    /\ \E h, g \in object_history : h.key = g.key /\ h.version # g.version
    /\ \E h \in object_history : h.deleted = 1
    /\ \E h \in object_history : h.key \notin DOMAIN objects

(***************************************************************************)
(* C27: errors on the read path                                            *)
(***************************************************************************)
\* the rows of a result set in the order the cursor delivers them
RowsOf(set) ==
    CHOOSE rows \in [1..Cardinality(set) -> set] :
        \A i, j \in 1..Cardinality(set) : i # j => rows[i] # rows[j]

\* what can go wrong while n rows are read: stmt.Query fails, rows.Scan (or
\* the decoding) of row at fails, or rows.Next ends before row at with
\* rows.Err set; close: rows.Close then fails as well
ReadFaults(n) ==
    {[kind |-> "none", at |-> 0, close |-> FALSE], [kind |-> "Query", at |-> 0, close |-> FALSE]}
      \cup {[kind |-> k, at |-> i, close |-> c] :
              k \in {"Scan", "Decode", "Err"}, i \in 1..n, c \in BOOLEAN}

\* closeOnError closes the rows and returns the error, or the error of Close
\* wrapped
closeOnError(fault) ==
    [result |-> <<>>, err |-> IF fault.close THEN "while handling " \o fault.kind ELSE fault.kind]

\* queryObjects with a cursor that can fail
queryObjectsOrError(rows, fault) ==
    IF fault.kind = "Query" THEN [result |-> <<>>, err |-> "Query"]
    ELSE IF fault.kind \in {"Scan", "Decode"} THEN closeOnError(fault)
    ELSE IF fault.kind = "Err"
         \* Next has closed the rows before, Close returns nil
         THEN closeOnError([fault EXCEPT !.close = FALSE])
    ELSE [result |-> [i \in DOMAIN rows |-> Decode(rows[i])], err |-> Nil]

\* queryStrings: after a failed Scan, and after rows.Err, the error is
\* returned only when rows.Close fails too; otherwise the loop goes on with
\* the empty string appended (Next is false on the closed rows), or the rows
\* read so far are returned, with a nil error
queryStrings(rows, fault) ==
    IF fault.kind = "Query" THEN [result |-> <<>>, err |-> "Query"]
    ELSE IF fault.kind = "Scan"
         THEN IF fault.close THEN [result |-> <<>>, err |-> "while handling " \o fault.kind]
              ELSE [result |-> SubSeq(rows, 1, fault.at - 1) \o <<"">>, err |-> Nil]
    ELSE IF fault.kind = "Err"
         THEN [result |-> SubSeq(rows, 1, fault.at - 1), err |-> Nil]
    ELSE [result |-> rows, err |-> Nil]

\* C27: when reading fails in queryObjects (SafeList) or in queryStrings
\* (SafeListKeys, IndexKeys), the call returns an error and no result; with a
\* nil error the result is the whole result set
ReadErrorsSurface ==
    LET blobs == RowsOf({objects[k] : k \in DOMAIN objects})
        keys == RowsOf(SafeListKeys(DB))
        Surfaces(got, whole, fault) ==
            IF fault.kind = "none"
            THEN got.err = Nil /\ got.result = whole
            ELSE got.err # Nil /\ got.result = <<>>
    IN /\ \A fault \in ReadFaults(Len(blobs)) :
             Surfaces(queryObjectsOrError(blobs, fault),
                      [i \in DOMAIN blobs |-> Decode(blobs[i])], fault)
       /\ \A fault \in {f \in ReadFaults(Len(keys)) : f.kind # "Decode"} :
             Surfaces(queryStrings(keys, fault), keys, fault)
       /\ \A n \in Indexers, v \in AllValues :
             LET under == RowsOf(IndexKeys(DB, n, v).keys)
             IN \A fault \in {f \in ReadFaults(Len(under)) : f.kind # "Decode"} :
                   Surfaces(queryStrings(under, fault), under, fault)

(***************************************************************************)
(* C28: the Safe forms and the forms without an error result               *)
(***************************************************************************)
\* errors.Wrap(err, message)
Wrap(err, message) == <<message, err>>

\* if err != nil { panic(errors.Wrap(err, message)) }; return result
PanicOnError(safe, message) ==
    IF safe.err # Nil THEN [result |-> <<>>, panic |-> Wrap(safe.err, message), printed |-> Nil]
    ELSE [result |-> safe.result, panic |-> Nil, printed |-> Nil]

\* if err != nil { fmt.Printf(...) }; return result
PrintOnError(safe) == [result |-> safe.result, panic |-> Nil, printed |-> safe.err]

\* what can go wrong while n strings are read: nothing is decoded
StringFaults(n) == {f \in ReadFaults(n) : f.kind # "Decode"}

\* the Safe forms with the failures of their reads
SafeGetOrError(d, key, fault) ==
    LET got == queryObjectsOrError(RowsOf({d.objects[k] : k \in (DOMAIN d.objects) \cap {key}}), fault)
    IN IF got.err # Nil THEN [result |-> [item |-> Nil, exists |-> FALSE], err |-> got.err]
       ELSE IF Len(got.result) = 0 THEN [result |-> [item |-> Nil, exists |-> FALSE], err |-> Nil]
       ELSE [result |-> [item |-> got.result[1], exists |-> TRUE], err |-> Nil]

SafeListOrError(d, fault) ==
    queryObjectsOrError(RowsOf({d.objects[k] : k \in DOMAIN d.objects}), fault)

SafeListKeysOrError(d, fault) == queryStrings(RowsOf(DOMAIN d.objects), fault)

\* SELECT DISTINCT value FROM indices WHERE name = ?
SafeListIndexFuncValues(d, indexName, fault) ==
    queryStrings(RowsOf({r.value : r \in {x \in d.indices : x.name = indexName}}), fault)

\* what a write returned, as a result and an error
Written(r) == [result |-> r.db, err |-> r.err]

\* the forms of sqlThreadSafeStore without an error result
StoreAdd(d, key, obj, fault, locked) ==
    PanicOnError(Written(SafeAdd(d, key, obj, fault, locked)),
                 "Unexpected error in sqlThreadSafeStore.Add")

\* Update delegates to Add
StoreUpdate(d, key, obj, fault, locked) == StoreAdd(d, key, obj, fault, locked)

StoreDelete(d, key, locked) ==
    PanicOnError(Written(SafeDelete(d, key, locked)),
                 "Unexpected error in sqlThreadSafeStore.SafeDelete")

StoreGet(d, key, fault) ==
    PanicOnError(SafeGetOrError(d, key, fault), "Unexpected error in sqlThreadSafeStore.SafeGet")

StoreList(d, fault) ==
    PanicOnError(SafeListOrError(d, fault), "Unexpected error in sqlThreadSafeStore.SafeList")

StoreListKeys(d, fault) ==
    PanicOnError(SafeListKeysOrError(d, fault), "Unexpected error in sqlThreadSafeStore.SafeListKeys")

\* Replace, applied to what SafeReplace returned
StoreReplace(safe) ==
    PanicOnError(safe, "Unexpected error in sqlThreadSafeStore.SafeReplace")

StoreListIndexFuncValues(d, name, fault) ==
    PanicOnError(SafeListIndexFuncValues(d, name, fault),
                 "Unexpected error in sqlThreadSafeStore.SafeListIndexFuncValues")

\* sqlIndexer.ListIndexFuncValues of sqlstore_indexer.go
IndexerListIndexFuncValues(d, name, fault) == PrintOnError(SafeListIndexFuncValues(d, name, fault))

\* the form without an error result agrees with the Safe form: it panics
\* with the wrapped error when the Safe form returns one, and returns the
\* same result otherwise
Agrees(bare, safe) ==
    IF safe.err # Nil
    THEN bare.panic # Nil /\ bare.panic[2] = safe.err
    ELSE bare.panic = Nil /\ bare.result = safe.result

\* C28: for Add, Update, Delete, Get, List, ListKeys, Replace and
\* ListIndexFuncValues, whatever the contents and whatever fails, the form
\* without an error result panics with the wrapped error exactly when the
\* Safe form returns an error, and otherwise returns the same result and
\* leaves the same tables
SafeAndErrorless ==
    /\ \A obj \in StoreObjs, fault \in Faults, locked \in BOOLEAN :
          /\ Agrees(StoreAdd(DB, keyfunc(obj), obj, fault, locked),
                    Written(SafeAdd(DB, keyfunc(obj), obj, fault, locked)))
          /\ Agrees(StoreUpdate(DB, keyfunc(obj), obj, fault, locked),
                    Written(SafeUpdate(DB, keyfunc(obj), obj, fault, locked)))
          /\ Agrees(StoreDelete(DB, keyfunc(obj), locked),
                    Written(SafeDelete(DB, keyfunc(obj), locked)))
    /\ \A key \in Keys :
          \A fault \in ReadFaults(Cardinality((DOMAIN objects) \cap {key})) :
             Agrees(StoreGet(DB, key, fault), SafeGetOrError(DB, key, fault))
    /\ \A fault \in ReadFaults(Cardinality(DOMAIN objects)) :
          Agrees(StoreList(DB, fault), SafeListOrError(DB, fault))
    /\ \A fault \in StringFaults(Cardinality(DOMAIN objects)) :
          Agrees(StoreListKeys(DB, fault), SafeListKeysOrError(DB, fault))
    /\ lastOp.op = "Replace" =>
          Agrees(StoreReplace([result |-> DB, err |-> lastOp.err]), [result |-> DB, err |-> lastOp.err])
    /\ \A name \in Indexers :
          \A fault \in StringFaults(Cardinality({r.value : r \in {x \in indices : x.name = name}})) :
             /\ Agrees(StoreListIndexFuncValues(DB, name, fault),
                       SafeListIndexFuncValues(DB, name, fault))
             /\ Agrees(IndexerListIndexFuncValues(DB, name, fault),
                       SafeListIndexFuncValues(DB, name, fault))

(***************************************************************************)
(* C29: Close                                                              *)
(***************************************************************************)
\* what can go wrong while n rows are read through the handle: once it is
\* closed the query itself fails
FaultsOn(isClosed, n) ==
    IF isClosed THEN {[kind |-> "Query", at |-> 0, close |-> FALSE]} ELSE ReadFaults(n)

\* every read of the store, with the faults the handle allows, returns an
\* error and nothing else
ReadsFail ==
    /\ \A key \in Keys :
          \A fault \in FaultsOn(closed, Cardinality((DOMAIN objects) \cap {key})) :
             LET got == SafeGetOrError(DB, key, fault)
             IN got.err # Nil /\ got.result = [item |-> Nil, exists |-> FALSE]
    /\ \A fault \in FaultsOn(closed, Cardinality(DOMAIN objects)) :
          /\ SafeListOrError(DB, fault) = [result |-> <<>>, err |-> fault.kind]
          /\ SafeListKeysOrError(DB, fault) = [result |-> <<>>, err |-> fault.kind]
    /\ \A name \in Indexers :
          /\ \A fault \in FaultsOn(closed, Cardinality({r.value : r \in {x \in indices : x.name = name}})) :
                SafeListIndexFuncValues(DB, name, fault) = [result |-> <<>>, err |-> fault.kind]
          /\ \A value \in AllValues :
                LET under == RowsOf(IndexKeys(DB, name, value).keys)
                IN \A fault \in FaultsOn(closed, Len(under)) :
                      queryStrings(under, fault) = [result |-> <<>>, err |-> fault.kind]

Quote == "\""

\* indexer names, as sequences of characters: the empty name, names without
\* a quote character (one with a single quote), and names with the quote
\* character first, last, in the middle and alone
IndexerNames ==
    {<<>>, <<"a">>, <<"a", "'", "b">>, <<Quote>>, <<Quote, "a">>, <<"a", Quote>>,
     <<"a", Quote, "b">>}

\* strings.HasPrefix(key, `"`)
HasQuotePrefix(key) == Len(key) > 0 /\ key[1] = Quote

\* strings.Index(str, c) for a c of one character: the offset of its first
\* occurrence, or -1
IndexOf(str, c) ==
    IF \E i \in DOMAIN str : str[i] = c
    THEN (CHOOSE i \in DOMAIN str : str[i] = c /\ \A j \in 1..(i - 1) : str[j] # c) - 1
    ELSE -1

\* strings.Contains(key, `"`)
ContainsQuote(key) == IndexOf(key, Quote) >= 0

\* nothing was constructed yet
NotConstructed ==
    [pc |-> "idle", indexers |-> {}, executed |-> <<>>, err |-> Nil, panic |-> Nil]

InitNew ==
    /\ schema = NotConstructed
    /\ tx = NoTx
    /\ closed = FALSE
    /\ objects = EmptyMap
    /\ fields = EmptyMap
    /\ indices = {}
    /\ object_history = {}
    /\ dbLocked = FALSE
    /\ repl = Idle
    /\ lastOp = Returned("", "", Nil, FALSE, FALSE)
    /\ monotonic = TRUE
    /\ written = {}
    /\ scenario = 0

\* NewThreadSafeStore up to the call of initSchema: os.RemoveAll of the
\* database file and sql.Open, each of which may return an error
NewThreadSafeStore(indexers, fault) ==
    /\ schema.pc \in {"idle", "returned", "panicked"}
    /\ schema' = [pc |-> IF fault = "none" THEN "initSchema" ELSE "returned",
                  indexers |-> indexers, executed |-> <<>>,
                  err |-> IF fault = "none" THEN Nil ELSE fault, panic |-> Nil]
    /\ UNCHANGED <<objects, fields, indices, object_history, dbLocked, repl, lastOp,
                   monotonic, written, scenario, tx, closed>>

\* initSchema, the sanity checks
SanityChecks ==
    /\ schema.pc = "initSchema"
    /\ schema' = IF \E key \in schema.indexers : ContainsQuote(key)
                 THEN [schema EXCEPT !.pc = "panicked",
                          !.panic = "Quote characters (\") in indexer names are not supported"]
                 ELSE [schema EXCEPT !.pc = "stmts"]
    /\ UNCHANGED <<objects, fields, indices, object_history, dbLocked, repl, lastOp,
                   monotonic, written, scenario, tx, closed>>

\* initSchema, the loop over the schema definition statements: db.Exec of
\* the next one, which may fail
SchemaStatement(fails) ==
    /\ schema.pc = "stmts"
    /\ schema' = IF fails
                 THEN [schema EXCEPT !.pc = "returned", !.err = "Error initializing DB"]
                 ELSE [schema EXCEPT
                          !.executed = Append(@, SchemaStmts[Len(@) + 1]),
                          !.pc = IF Len(schema.executed) + 1 = Len(SchemaStmts)
                                 THEN "prepare" ELSE "stmts"]
    /\ UNCHANGED <<objects, fields, indices, object_history, dbLocked, repl, lastOp,
                   monotonic, written, scenario, tx, closed>>

\* the statements are prepared (prepare panics when db.Prepare fails) and
\* the store is returned
PrepareStatements(fails) ==
    /\ schema.pc = "prepare"
    /\ schema' = IF fails
                 THEN [schema EXCEPT !.pc = "panicked", !.panic = "Could not prepare statement"]
                 ELSE [schema EXCEPT !.pc = "returned"]
    /\ lastOp' = IF fails THEN lastOp ELSE Returned("New", "", Nil, FALSE, FALSE)
    /\ UNCHANGED <<objects, fields, indices, object_history, dbLocked, repl,
                   monotonic, written, scenario, tx, closed>>

NextNew ==
    \/ \E indexers \in SUBSET IndexerNames, fault \in {"none", "RemoveAll", "Open"} :
          NewThreadSafeStore(indexers, fault)
    \/ SanityChecks
    \/ \E fails \in BOOLEAN : SchemaStatement(fails)
    \/ \E fails \in BOOLEAN : PrepareStatements(fails)

SpecNew == InitNew /\ [][NextNew]_vars

\* C30: once the construction has got past the sanity checks of initSchema,
\* it has panicked with the message about quote characters if and only if
\* some indexer name holds a double quote at some position, and then no
\* schema statement was executed
IndexNameGuard ==
    LET quoted == \E key \in schema.indexers : \E i \in 1..Len(key) : key[i] = Quote
        guard == "Quote characters (\") in indexer names are not supported"
    IN schema.pc \notin {"idle", "initSchema"} /\ schema.err \notin {"RemoveAll", "Open"} =>
          /\ quoted => schema.pc = "panicked" /\ schema.panic = guard /\ schema.executed = <<>>
          /\ ~quoted => schema.panic # guard

\* the guard has fired on a name whose quote is not its first character,
\* given together with a name free of quotes
IndexNameGuardWitness ==
    /\ schema.pc = "panicked"
    /\ schema.executed = <<>>
    /\ schema.indexers = {<<"a">>, <<"a", Quote, "b">>}

(***************************************************************************)
(* C31: the past under later writes and deletes                            *)
(***************************************************************************)
\* the step is a successful Upsert at a version above R
UpsertAbove(R) ==
    /\ lastOp'.op = "Upsert" /\ lastOp'.err = Nil
    /\ versionfunc(Decode(objects'[lastOp'.key])) > R

\* the step is a successful Delete issued after a write at a version above R
DeleteAfterAbove(R) ==
    /\ lastOp'.op = "Delete" /\ lastOp'.err = Nil
    /\ \E h \in object_history : h.version > R

\* what the queries at revision R return
ListedAt(d, R) ==
    [filters \in {<<>>, <<Filter("Brand", ferrari)>>} |-> Listed(d, ListOptions(filters, Itoa(R)))]

\* C31: an Add or Update at a version above R, and a Delete issued after
\* such a write, leave the results of the queries at revision R as they were
PastIsImmutable ==
    [][\A R \in 1..MaxRev :
          (UpsertAbove(R) \/ DeleteAfterAbove(R)) => ListedAt(DB', R) = ListedAt(DB, R)]_vars

(***************************************************************************)
(* C32: the objects of a historical read                                   *)
(***************************************************************************)
\* the revisions asked for: below, at and above every version written
RevisionsAsked == 0..5

\* the object a query at revision R returns for key, if any
ListedFor(d, key, R) ==
    {o \in Listed(d, ListOptions(<<>>, Itoa(R))) : keyfunc(o) = key}

\* C32: an object returned at revision R carries the greatest version at or
\* below R that its key has in the history and is the decoded blob of that
\* row, and right after a successful write of o it is o that is returned for
\* its key at every revision R for which o's version is that greatest
\* version; with revision "" the objects returned are the current ones
HistoricalObjects ==
    /\ [](/\ \A R \in RevisionsAsked :
                \A o \in Listed(DB, ListOptions(<<>>, Itoa(R))) :
                   /\ versionfunc(o) = MaxVersionUpTo(DB, keyfunc(o), R)
                   /\ \E h \in HistoryOf(DB, keyfunc(o)) :
                         h.version = versionfunc(o) /\ Decode(h.object) = o
          /\ Listed(DB, ListOptions(<<>>, <<>>)) = {Decode(objects[k]) : k \in DOMAIN objects})
    /\ [][(lastOp'.op = "Upsert" /\ lastOp'.err = Nil) =>
             LET o == Decode(objects'[lastOp'.key])
             IN \A R \in RevisionsAsked :
                   versionfunc(o) = MaxVersionUpTo(DB', lastOp'.key, R) =>
                      ListedFor(DB', lastOp'.key, R) = {o}]_vars

\* a key whose object at revision 1 is not its current object
HistoricalObjectsWitness ==
    \E o \in Listed(DB, ListOptions(<<>>, Itoa(1))) :
        /\ keyfunc(o) \in DOMAIN objects
        /\ Decode(objects[keyfunc(o)]) # o
        /\ versionfunc(Decode(objects[keyfunc(o)])) > 1

(***************************************************************************)
(* C33: a write touches the rows of its own key only                       *)
(***************************************************************************)
\* everything the tables of d hold about key
RowsOfKey(d, key) ==
    [object |-> IF key \in DOMAIN d.objects THEN <<d.objects[key]>> ELSE <<>>,
     fields |-> IF key \in DOMAIN d.fields THEN <<d.fields[key]>> ELSE <<>>,
     indices |-> {r \in d.indices : r.key = key},
     history |-> HistoryOf(d, key)]

\* C33: an Upsert or a Delete of a key, successful or not, leaves the object
\* row, the index rows and the history rows (version, deleted flag, blob) of
\* every other key as they were
WritesAreLocal ==
    [][(repl.pc # "running" /\ repl'.pc # "running" /\ lastOp'.op \in {"Upsert", "Delete"}) =>
          \A k \in AllKeys \ {lastOp'.key} : RowsOfKey(DB', k) = RowsOfKey(DB, k)]_vars

\* a key was deleted while the other key holds a live row at the same
\* version and a row at a lower one
WritesAreLocalWitness ==
    /\ lastOp.op = "Delete" /\ lastOp.err = Nil
    /\ \E h \in HistoryOf(DB, lastOp.key) :
          /\ h.version = MaxVersion(DB, lastOp.key) /\ h.deleted = 1
          /\ \E g \in object_history : g.key # h.key /\ g.version = h.version /\ g.deleted = 0
          /\ \E g \in object_history : g.key # h.key /\ g.version < h.version
    /\ DOMAIN objects # {}

(***************************************************************************)
(* C34: the transaction of a failed write                                  *)
(***************************************************************************)
\* the errors an Upsert returns from inside its transaction
InTxErrors == {"indexFunc", "constraint", "versionFunc"}

\* C34: after an Upsert has returned an error from inside its transaction
\* the transaction is ended: the write lock is free, and the next write does
\* not fail on the lock
FailedWriteReleases ==
    /\ []((lastOp.op = "Upsert" /\ lastOp.err \in InTxErrors) => ~dbLocked)
    /\ [][(lastOp.op = "Upsert" /\ lastOp.err \in InTxErrors) =>
             lastOp'.err # "database is locked"]_vars

(***************************************************************************)
(* C35: the current object and its history row                             *)
(***************************************************************************)
\* C35: every key with a current object has, in the history, the row of its
\* key and of the version of that object, with deleted = 0 and the blob of
\* the current object; the history holds one row of that key and version
CurrentAgreesWithHistory ==
    \A k \in DOMAIN objects :
        LET own == {h \in HistoryOf(DB, k) : h.version = versionfunc(Decode(objects[k]))}
        IN own = {[key |-> k, version |-> versionfunc(Decode(objects[k])), deleted |-> 0,
                   object |-> objects[k]]}

\* a key was deleted and then written again at the version of its tombstone,
\* below a greater version of its own
CurrentAgreesWithHistoryWitness ==
    /\ lastOp.op = "Upsert" /\ lastOp.err = Nil /\ lastOp.repeat /\ ~lastOp.existed
    /\ lastOp.key \in DOMAIN objects
    /\ versionfunc(Decode(objects[lastOp.key])) < MaxVersion(DB, lastOp.key)

(***************************************************************************)
(* C36: Delete of a key without a current object, and Delete twice         *)
(***************************************************************************)
\* C36: while no abandoned transaction holds the lock, a Delete of a key
\* without a current object, through the store or through the Indexer with
\* hooks, returns no error and changes no table; a second Delete of any key
\* changes nothing after the first; and the Delete calls made in such states
\* have left every table as it was
DeleteIdempotent ==
    /\ [](~dbLocked =>
            \A k \in AllKeys :
               LET once == DeleteByKey(DB, k, "none", FALSE)
                   twice == DeleteByKey(once.db, k, "none", once.locked)
               IN /\ once.err = Nil /\ twice.err = Nil /\ twice.db = once.db
                  /\ SafeDelete(SafeDelete(DB, k, FALSE).db, k, FALSE) = SafeDelete(DB, k, FALSE)
                  /\ k \notin DOMAIN objects =>
                        once.db = DB /\ SafeDelete(DB, k, FALSE) = Ret(DB, Nil, FALSE))
    /\ [][(lastOp'.op = "Delete" /\ lastOp'.err = Nil /\ ~lastOp'.existed) =>
             UNCHANGED <<objects, fields, indices, object_history>>]_vars

\* a key with two history rows was deleted, and deleted again
DeleteIdempotentWitness ==
    /\ lastOp.op = "Delete" /\ lastOp.err = Nil /\ ~lastOp.existed
    /\ Cardinality(HistoryOf(DB, lastOp.key)) = 2
    /\ \E h \in HistoryOf(DB, lastOp.key) : h.deleted = 0
    /\ DOMAIN objects # {}

(***************************************************************************)
(* C37: the same Upsert twice                                              *)
(***************************************************************************)
\* C37: an Upsert that succeeded, made again with the same object, succeeds
\* and leaves the object rows, field columns, index rows and history rows
\* as the first left them, through the store (SafeAdd) and through the
\* Indexer with hooks; and the steps that repeat the Upsert before them have
\* changed no table
UpsertIdempotent ==
    /\ [](\A o \in SharedObjs :
            LET once == Upsert(DB, keyfunc(o), o, "none", dbLocked)
                plain == SafeAdd(DB, keyfunc(o), o, "none", dbLocked)
            IN /\ once.err = Nil =>
                     Upsert(once.db, keyfunc(o), o, "none", once.locked) = once
               /\ plain.err = Nil =>
                     SafeAdd(plain.db, keyfunc(o), o, "none", plain.locked) = plain)
    /\ [][(/\ lastOp.op = "Upsert" /\ lastOp.err = Nil
           /\ lastOp'.op = "Upsert" /\ lastOp'.err = Nil /\ lastOp'.key = lastOp.key
           /\ lastOp.key \in DOMAIN objects
           /\ objects'[lastOp.key] = objects[lastOp.key]) =>
             UNCHANGED <<objects, fields, indices, object_history>>]_vars

\* the object of a key that has two history rows and index rows was written
\* twice in a row
UpsertIdempotentWitness ==
    /\ lastOp.op = "Upsert" /\ lastOp.err = Nil /\ lastOp.existed /\ lastOp.repeat
    /\ Cardinality(HistoryOf(DB, lastOp.key)) = 2
    /\ \E r \in indices : r.key = lastOp.key
    /\ versionfunc(Decode(objects[lastOp.key])) = MaxVersion(DB, lastOp.key)

(***************************************************************************)
(* C38: ListIndexFuncValues                                                *)
(***************************************************************************)
\* the values the current objects produce under the indexer name
Produced(d, name) ==
    UNION {Range(IndexFunc(name, Decode(d.objects[k]))) : k \in DOMAIN d.objects}

\* C38: for every indexer, ListIndexFuncValues read without a failure returns
\* no error and a list without repetition whose values are exactly those some
\* current object produces under that indexer
ListsCurrentValues ==
    \A name \in Indexers :
        LET got == SafeListIndexFuncValues(DB, name, [kind |-> "none", at |-> 0, close |-> FALSE])
        IN /\ got.err = Nil
           /\ \A i, j \in DOMAIN got.result : i # j => got.result[i] # got.result[j]
           /\ Range(got.result) = Produced(DB, name)

\* an object was deleted and the one that is left still produces "foo",
\* which is listed, and nothing else is
ListsCurrentValuesWitness ==
    /\ lastOp.op = "Delete" /\ lastOp.err = Nil /\ lastOp.existed
    /\ Cardinality(DOMAIN objects) = 1
    /\ Range(SafeListIndexFuncValues(DB, "testIndexer",
                [kind |-> "none", at |-> 0, close |-> FALSE]).result) = {"foo"}

(***************************************************************************)
(* C39: IndexKeys, ByIndex and Index, row by row                           *)
(***************************************************************************)
\* the index rows of name whose value is among values
IndexRowsAmong(d, indexName, values) ==
    {x \in d.indices : x.name = indexName /\ x.value \in Range(values)}

\* the query of Index as a join of objects and indices: one row for every
\* matching index row
IndexRowsJoined(d, indexName, values) ==
    LET matching == RowsOf({x \in IndexRowsAmong(d, indexName, values) : x.key \in DOMAIN d.objects})
    IN [i \in DOMAIN matching |-> Decode(d.objects[matching[i].key])]

\* the rows of SELECT object FROM objects WHERE key IN (SELECT key FROM
\* indices WHERE name = ? AND value IN (...)), the query of ByIndex (one
\* value) and of Index (several): one row for every object row whose key is
\* selected
IndexRows(d, indexName, values) ==
    LET selected == {x.key : x \in IndexRowsAmong(d, indexName, values)}
        keys == RowsOf({k \in DOMAIN d.objects : k \in selected})
    IN [i \in DOMAIN keys |-> Decode(d.objects[keys[i]])]

\* the rows of SELECT DISTINCT key FROM indices WHERE name = ? AND value = ?
IndexKeysRows(d, indexName, indexedValue) ==
    RowsOf({x.key : x \in IndexRowsAmong(d, indexName, <<indexedValue>>)})

NoRepetition(rows) == \A i, j \in DOMAIN rows : i # j => rows[i] # rows[j]

\* C39: for every indexer and value, IndexKeys returns no key twice and its
\* keys are the keys of the objects ByIndex returns, which returns no object
\* twice; and for every probed object Index returns no object twice and
\* exactly the objects filed under one of the probed values
IndexKeysAgreeWithByIndex ==
    \A name \in Indexers :
        /\ \A v \in AllValues :
              LET keys == IndexKeysRows(DB, name, v)
                  objs == IndexRows(DB, name, <<v>>)
              IN /\ NoRepetition(keys) /\ NoRepetition(objs)
                 /\ Range(keys) = IndexKeys(DB, name, v).keys
                 /\ Range(objs) = ByIndex(DB, name, v).items
                 /\ Range(keys) = {keyfunc(o) : o \in Range(objs)}
        /\ \A probe \in StoreObjs :
              LET rows == IndexRows(DB, name, IndexFunc(name, probe))
              IN /\ NoRepetition(rows)
                 /\ Len(IndexFunc(name, probe)) > 0 => Range(rows) = Index(DB, name, probe).items
                 /\ Range(rows) = UNION {ByIndex(DB, name, v).items : v \in Range(IndexFunc(name, probe))}

\* an object filed under "foo" and under "bar" is stored next to one filed
\* under "foo" only, so a probe for both values matches the first twice
IndexKeysAgreeWithByIndexWitness ==
    /\ Cardinality(DOMAIN objects) = 2
    /\ \E k \in DOMAIN objects : Decode(objects[k]).Val = <<"foo", "bar">>
    /\ \E k \in DOMAIN objects : Decode(objects[k]).Val = <<"foo">>
    /\ Len(IndexRows(DB, "testIndexer", <<"foo", "bar">>)) = 2
    /\ Len(IndexKeysRows(DB, "testIndexer", "foo")) = 2

(***************************************************************************)
(* C40: the reads as calls                                                 *)
(***************************************************************************)
ReadOps ==
    {"Get", "GetByKey", "List", "ListKeys", "Index", "IndexKeys", "ByIndex",
     "ListIndexFuncValues", "GetByKeyAndVersion", "ListByOptions", "Resync"}

\* what the read op returns when it is called for obj: with obj itself (Get,
\* Index), its key, its version, the first value it is filed under, or its
\* brand and version as filter and revision
ReadResult(d, op, obj) ==
    CASE op = "Get" -> Get(d, obj)
      [] op = "GetByKey" -> GetByKey(d, keyfunc(obj))
      [] op = "List" -> SafeList(d)
      [] op = "ListKeys" -> SafeListKeys(d)
      [] op = "Index" -> Index(d, "testIndexer", obj)
      [] op = "IndexKeys" -> IndexKeys(d, "testIndexer", IndexFunc("testIndexer", obj)[1])
      [] op = "ByIndex" -> ByIndex(d, "testIndexer", IndexFunc("testIndexer", obj)[1])
      [] op = "ListIndexFuncValues" ->
            Range(SafeListIndexFuncValues(d, "testIndexer",
                     [kind |-> "none", at |-> 0, close |-> FALSE]).result)
      [] op = "GetByKeyAndVersion" -> GetByKeyAndVersion(d, keyfunc(obj), versionfunc(obj))
      [] op = "ListByOptions" ->
            Listed(d, ListOptions(<<Filter("Brand", brandfunc(obj))>>, Itoa(versionfunc(obj))))
      [] op = "Resync" -> Nil

\* a Resync that lists again from an empty source
ReadEffectResyncClears(d, op) == IF op = "Resync" THEN deleteAllStmt(d) ELSE d

\* the tables after the statements of a read: each read executes SELECT
\* statements only, and Resync returns nil without executing any
ReadEffect(d, op) == d

\* a read is called for obj and returns
Read(op, obj) ==
    /\ Commit(Ret(ReadEffect(DB, op), Nil, dbLocked))
    /\ lastOp' = Returned(op, keyfunc(obj), Nil, HasObj(DB, keyfunc(obj)), FALSE)
    /\ UNCHANGED <<repl, monotonic, written, scenario, tx, closed, schema>>

\* the VersionedIndexer written and read in any order
NextRead ==
    \/ Writes(SharedObjs, TRUE)
    \/ \E op \in ReadOps, obj \in SharedObjs : Read(op, obj)

SpecRead == Init /\ [][NextRead]_vars

\* C40: a read leaves every object row, field column, index row and history
\* row as it was, and made again it returns the same results
ReadsHaveNoEffect ==
    [][lastOp'.op \in ReadOps =>
          /\ UNCHANGED <<objects, fields, indices, object_history>>
          /\ \A obj \in {o \in SharedObjs : keyfunc(o) = lastOp'.key} :
                ReadResult(DB', lastOp'.op, obj) = ReadResult(DB, lastOp'.op, obj)]_vars

\* Resync was called on a store that holds an object, index rows and a
\* tombstone
ReadsHaveNoEffectWitness ==
    /\ lastOp.op = "Resync"
    /\ objects # EmptyMap /\ indices # {}
    /\ \E h \in object_history : h.deleted = 1

====
